---- MODULE Spec2Model ----
(***************************************************************************)
(* Model of the two core structures of the asteroid simulation:            *)
(*   - ObjectPool   (src/core/pool.py)    a recycling allocator            *)
(*   - SpatialHash  (src/core/spatial.py) a uniform grid broad phase       *)
(* Objects are represented by their identity (Python's id(obj)).           *)
(***************************************************************************)
EXTENDS Integers, Sequences, FiniteSets, TLC

(***************************************************************************)
(* Bounds of the model.                                                    *)
(***************************************************************************)
\* Number of object identities the allocator can hand out.
MaxIds == 3
\* max_size of a pool is drawn from 0..MaxSize.
MaxSize == 2
\* initial of a pool is drawn from 0..MaxInitial.
MaxInitial == 2

\* Entity coordinates and query coordinates are drawn from -1..MaxCoord.
MaxCoord == 1
\* cell_size is drawn from 1..MaxCellSize.
MaxCellSize == 2
\* Asteroids are spawned with radius ASTEROID_MIN_RADIUS * 1..MaxKind.
MaxKind == 2
\* The spawner acquires an asteroid while fewer than MaxSpawned are around.
MaxSpawned == 1
\* The callers of the entity classes make at most MaxCalls calls of acquire,
\* update, release, split and of the player's scan.
MaxCalls == 5
\* update() moves an entity at most MaxMoves times between two resets.
MaxMoves == 2
\* SCAN_TIME_QUICK and SCAN_TIME_FULL in frames: the number of frames the
\* player has to scan an asteroid for a quick and for a full scan.
SCAN_TIME_QUICK == 2
SCAN_TIME_FULL == 3

\* Shots in flight at once, and the longest frame (dt in 1..MaxDt).
MaxShots == 2
MaxDt == 2

\* The instances each pool of main() is pre-warmed with (initial=100 of
\* max_size=500 and initial=50 of max_size=200 in main.py, scaled down).
Prewarmed == 1

\* The shots that hit an asteroid in one frame of the scan (the entries of
\* asteroids_to_split).
MaxHits == 2

\* Scoring actions (scans and destroys) of a session.
MaxActions == 4

\* The points of a destroyed asteroid, a quick scan and a full scan.
DESTROY_POINTS == 10
SCAN_POINTS_QUICK == 5
SCAN_POINTS_FULL == 25
\* Between two clear() calls there are at most as many insert() calls as there
\* are entities, plus MaxExtraInserts.
MaxExtraInserts == 0

Ids == 1..MaxIds
NoObj == 0

VARIABLES
    \* ---- ObjectPool (src/core/pool.py) ----
    initial,        \* the `initial` argument the pool was constructed with
    _max_size,      \* self._max_size (also the deque's maxlen)
    _pool,          \* self._pool: deque of available instances, right end last
    _active,        \* self._active: set of id(obj) of checked-out instances
    held,           \* instances the callers of the pool hold a reference to
    plast,          \* the last pool operation: its arguments, result, pre-state
    \* ---- SpatialHash (src/core/spatial.py) ----
    cell_size,      \* self.cell_size
    ents,           \* the entities: name -> [x, y, radius] (position, radius)
    _grid,          \* self._grid: cell -> list of entities (only written cells)
    _entity_cells,  \* self._entity_cells: entity -> primary cell
    n_ins,          \* number of insert() calls since the last clear()
    wiped,          \* the last change of the index was a clear() of inserts
    q,              \* the generator a query call returned: its frame while
                    \* it is suspended, what it yielded so far
    \* ---- Asteroid / Shot (src/asteroid.py, src/shot.py) ----
    kind,           \* the entity class exercised: "Asteroid" or "Shot"
    pooled,         \* cls._pool is set (set_pool was called) or is None
    objs,           \* the fields of each object, by identity
    groups,         \* the sprite groups (containers): name -> list(group), the
                    \* members in the order they were added
    elast,          \* the last entity operation: arguments, result, pre-state
    calls,          \* the calls the callers of the entity classes have made
    \* ---- the game loop (src/main.py) ----
    pc,             \* the statement of main() that runs next
    pools,          \* asteroid_pool and shot_pool: available deque, active set
    it,             \* the items the running for loop has still to visit
    indexed,        \* what was inserted into `spatial` since its last clear()
    shots_to_remove,    \* the side list of shots that hit an asteroid
    asteroids_to_split, \* the side list of asteroids that were hit
    running,        \* the flag of the while loop
    nq,             \* number of queries issued in the running iteration
    \* ---- the scan of the player (src/player.py, src/main.py 90-108) ----
    sphase,         \* the part of the frame that runs next
    keys_e,         \* keys[pygame.K_e] in the running frame
    scan_timer,     \* player.scan_timer, in frames
    scan_target,    \* player.scan_target (NoObj for None)
    last_scan_result,   \* player.last_scan_result
    watch,          \* history: the frames for which the asteroid that now
                    \* lives in the target instance was scanned without a break
    \* ---- the session (src/crypto/signing.py, src/main.py 97-145) ----
    session,        \* the GameSession: score, counters, action log
    packet          \* the ScorePacket made when the player was hit

poolVars == <<initial, _max_size, _pool, _active, held, plast>>
gridVars == <<cell_size, ents, _grid, _entity_cells, n_ins, wiped, q>>
entityVars == <<kind, pooled, objs, groups, elast, calls>>
loopVars == <<pc, pools, it, indexed, shots_to_remove, asteroids_to_split,
              running, nq>>
scanVars == <<sphase, keys_e, scan_timer, scan_target, last_scan_result, watch>>
sessionVars == <<session, packet>>
vars == <<poolVars, gridVars, entityVars, loopVars, scanVars, sessionVars>>

Range(s) == {s[i] : i \in 1..Len(s)}

\* Group.remove(x): the members without x, in their order.
Without(s, x) == SelectSeq(s, LAMBDA y : y # x)

\* No generator is held.  The fields of a generator: the call (kind, args),
\* where it stands (state), the locals of its frame (scan: the cells its
\* loops visit, pos: the cell visited now, idx: the entries of that cell's
\* list already iterated, seen), the list it iterates when the index dropped
\* that list (held; live: the list is still the one in _grid), what it
\* yielded so far (result), and whether the index was changed while it was
\* suspended (changed).
NoQuery ==
    [kind |-> "none", args |-> <<>>, result |-> <<>>, state |-> "none",
     scan |-> <<>>, pos |-> 0, idx |-> 0, seen |-> {}, held |-> <<>>,
     live |-> FALSE, changed |-> FALSE]

\* A mapping with no key: dict() / defaultdict(list) after construction.
EmptyMap == [k \in {} |-> <<>>]

\* A SpatialHash with no entity around it and nothing inserted (the index
\* while only the pool is exercised).
GridIdle ==
    /\ cell_size = 1
    /\ ents = EmptyMap
    /\ _grid = EmptyMap
    /\ _entity_cells = EmptyMap
    /\ n_ins = 0
    /\ wiped = FALSE
    /\ q = NoQuery

\* The fields of an identity that no object has.
NoEnt == [cls |-> "none"]

\* The sprite groups of main(): asteroids, shots, updatable, drawable.
GroupNames == {"asteroids", "shots", "updatable", "drawable"}

\* No entity operation has run.
NoEntityOp ==
    [op |-> "none", self |-> NoObj, args |-> <<>>, ret |-> <<>>,
     pre |-> NoEnt, theta |-> 0]

\* No Asteroid or Shot exists and no group has a member (the entity classes
\* while only the pool or the index is exercised).
EntityIdle ==
    /\ kind = "Asteroid"
    /\ pooled = FALSE
    /\ objs = [i \in Ids |-> NoEnt]
    /\ groups = [g \in GroupNames |-> <<>>]
    /\ elast = NoEntityOp
    /\ calls = 0

\* player.last_scan_result = None
NoScanResult == [type |-> "none", asteroid |-> NoObj]

\* The player scans nothing (the player while the pool, the index, the
\* entities or the collision loop are exercised).
ScanIdle ==
    /\ sphase = "idle"
    /\ keys_e = FALSE
    /\ scan_timer = 0
    /\ scan_target = NoObj
    /\ last_scan_result = NoScanResult
    /\ watch = 0

\* GameSession.__init__: score and counters 0, an empty action log.
NewSession ==
    [score |-> 0, scans_quick |-> 0, scans_full |-> 0, destroys |-> 0,
     actions |-> <<>>]

\* No packet was created.
NoPacket == [made |-> FALSE]

\* The session of a game that records nothing (the session while the pool,
\* the index, the entities, the collision loop or the scan are exercised).
SessionIdle ==
    /\ session = NewSession
    /\ packet = NoPacket

\* An ObjectPool nothing was acquired from, with nothing available.
EmptyPool == [pool |-> <<>>, active |-> {}]

\* main() has not entered its loop (the loop while only the pool, the index
\* or the entities are exercised).
LoopIdle ==
    /\ pc = "idle"
    /\ pools = [Asteroid |-> EmptyPool, Shot |-> EmptyPool]
    /\ it = <<>>
    /\ indexed = <<>>
    /\ shots_to_remove = <<>>
    /\ asteroids_to_split = <<>>
    /\ running = FALSE
    /\ nq = 0

(***************************************************************************)
(* collections.deque(maxlen=m).append(x): when the deque is full the       *)
(* leftmost element is discarded; with maxlen 0 nothing is stored.         *)
(***************************************************************************)
DequeAppend(d, m, x) ==
    IF m = 0 THEN <<>>
    ELSE IF Len(d) >= m THEN Tail(d) \o <<x>>
    ELSE Append(d, x)

\* Instances that are reachable, so that their identity cannot be reused.
Live(pl, h) == Range(pl) \cup h

\* id() of a newly constructed object: any identity that no live object has.
FreshIds(pl, h) == Ids \ Live(pl, h)

(***************************************************************************)
(* ObjectPool.__init__: pre-warm loop, factory() called `initial` times.   *)
(***************************************************************************)
RECURSIVE Prewarm(_, _, _)
Prewarm(d, m, k) ==
    IF k = 0 THEN d
    ELSE DequeAppend(Prewarm(d, m, k - 1), m, k)

\* The record kept of a pool operation: what was called with which objects,
\* what it returned, whether the factory ran, the state it started from, and
\* the instance that the operation before it put back into the pool (NoObj
\* when that operation was not a release that recycled an active instance).
OpRec(op, batch, ret, made, pl, ac, rec) ==
    [op |-> op, objs |-> batch, ret |-> ret, made |-> made,
     pre_pool |-> pl, pre_active |-> ac, recycled |-> rec]

\* The instance the operation recorded in r put back into the pool.
Recycled(r) ==
    IF /\ r.op = "release"
       /\ r.objs[1] \in r.pre_active
       /\ Len(r.pre_pool) < _max_size
    THEN r.objs[1]
    ELSE NoObj

PoolInit ==
    /\ _max_size \in 0..MaxSize
    /\ initial \in 0..MaxInitial
    /\ _pool = Prewarm(<<>>, _max_size, initial)
    /\ _active = {}
    /\ held = {}
    /\ plast = OpRec("init", <<>>, NoObj, FALSE, <<>>, {}, NoObj)
    /\ GridIdle
    /\ EntityIdle
    /\ LoopIdle
    /\ ScanIdle
    /\ SessionIdle

(***************************************************************************)
(* ObjectPool.acquire                                                      *)
(***************************************************************************)
\* deque.popleft(): what acquire would do if it took the oldest instance.
PopLeft(d) == [obj |-> Head(d), rest |-> Tail(d)]

\* A read of the rightmost instance that leaves it in the deque: d[-1].
Peek(d) == [obj |-> d[Len(d)], rest |-> d]

\* deque.pop(): the rightmost (most recently appended) instance.
Pop(d) == [obj |-> d[Len(d)], rest |-> SubSeq(d, 1, Len(d) - 1)]

acquire ==
    \E obj \in Ids :
        /\ IF _pool # <<>>
           THEN /\ obj = Pop(_pool).obj
                /\ _pool' = Pop(_pool).rest
           ELSE /\ obj \in FreshIds(_pool, held)
                /\ _pool' = _pool
        /\ _active' = _active \cup {obj}
        /\ held' = held \cup {obj}
        /\ plast' = OpRec("acquire", <<>>, obj, _pool = <<>>, _pool, _active,
                          Recycled(plast))
        /\ UNCHANGED <<initial, _max_size, gridVars, entityVars, loopVars, scanVars, sessionVars>>

(***************************************************************************)
(* ObjectPool.release, as a function of the pool state.                    *)
(***************************************************************************)
PoolState(pl, ac) == [pool |-> pl, active |-> ac]

\* release() without the `if oid in self._active` guard.
ReleaseUnguarded(st, m, obj) ==
    [pool |-> IF Len(st.pool) < m THEN Append(st.pool, obj) ELSE st.pool,
     active |-> st.active \ {obj}]

ReleaseStep(st, m, obj) ==
    IF obj \in st.active
    THEN [pool |-> IF Len(st.pool) < m THEN Append(st.pool, obj) ELSE st.pool,
          active |-> st.active \ {obj}]
    ELSE st

\* Lines 65-68 of release(): an active instance that is a sprite is removed
\* from every group it is in; g is the groups, ac the active set before.
ReleasedFromGroups(g, ac, obj) ==
    IF obj \in ac THEN [n \in GroupNames |-> Without(g[n], obj)] ELSE g

release ==
    \E obj \in held :
        LET st == ReleaseStep(PoolState(_pool, _active), _max_size, obj) IN
        /\ _pool' = st.pool
        /\ _active' = st.active
        /\ groups' = ReleasedFromGroups(groups, _active, obj)
        /\ plast' = OpRec("release", <<obj>>, NoObj, FALSE, _pool, _active,
                          Recycled(plast))
        /\ UNCHANGED <<initial, _max_size, held, gridVars, kind, pooled, calls,
                       objs, elast, loopVars, scanVars, sessionVars>>

(***************************************************************************)
(* ObjectPool.release_all: release() on each object of the batch in order. *)
(***************************************************************************)
RECURSIVE ReleaseAllFrom(_, _, _)
ReleaseAllFrom(st, m, batch) ==
    IF batch = <<>> THEN st
    ELSE ReleaseAllFrom(ReleaseStep(st, m, Head(batch)), m, Tail(batch))

\* The groups after release() on each object of the batch in order.
RECURSIVE ReleasedAllFromGroups(_, _, _, _)
ReleasedAllFromGroups(g, st, m, batch) ==
    IF batch = <<>> THEN g
    ELSE ReleasedAllFromGroups(ReleasedFromGroups(g, st.active, Head(batch)),
                               ReleaseStep(st, m, Head(batch)), m,
                               Tail(batch))

\* The batches handed to release_all: no object, one object, or two objects
\* (the same object twice included).
Batches(S) == {<<>>} \cup {<<x>> : x \in S} \cup {<<x, y>> : x \in S, y \in S}

release_all ==
    \E batch \in Batches(held) :
        LET st == ReleaseAllFrom(PoolState(_pool, _active), _max_size, batch) IN
        /\ _pool' = st.pool
        /\ _active' = st.active
        /\ groups' = ReleasedAllFromGroups(groups, PoolState(_pool, _active),
                                           _max_size, batch)
        /\ plast' = OpRec("release_all", batch, NoObj, FALSE, _pool, _active,
                          Recycled(plast))
        /\ UNCHANGED <<initial, _max_size, held, gridVars, kind, pooled, calls,
                       objs, elast, loopVars, scanVars, sessionVars>>

(***************************************************************************)
(* The callers of the pool: an object constructed outside the pool, and a  *)
(* reference that is dropped (the object is collected once neither the     *)
(* pool nor a caller refers to it, and its identity may be handed out      *)
(* again).                                                                 *)
(***************************************************************************)
Construct ==
    \E obj \in FreshIds(_pool, held) :
        /\ held' = held \cup {obj}
        /\ UNCHANGED <<initial, _max_size, _pool, _active, plast, gridVars, entityVars, loopVars, scanVars, sessionVars>>

Forget ==
    \E obj \in held :
        /\ held' = held \ {obj}
        /\ UNCHANGED <<initial, _max_size, _pool, _active, plast, gridVars, entityVars, loopVars, scanVars, sessionVars>>

\* ObjectPool.available / active / total
available == Len(_pool)
active == Cardinality(_active)
total == available + active

PoolNext == acquire \/ release \/ release_all \/ Construct \/ Forget

PoolSpec == PoolInit /\ [][PoolNext]_vars

(***************************************************************************)
(* SpatialHash (src/core/spatial.py).  Coordinates are integers; a cell    *)
(* is a pair <<cx, cy>>.                                                   *)
(***************************************************************************)
Coords == -1..MaxCoord
\* Entity radii: a point entity and an entity of radius 1.
Radii == {0, 1}
CellSizes == 1..MaxCellSize

Entity(x, y, r) == [x |-> x, y |-> y, radius |-> r]
Placements == {Entity(x, y, r) : x \in Coords, y \in Coords, r \in Radii}

\* A pool that is constructed empty and left alone (the pool while only the
\* index is exercised).
PoolIdle ==
    /\ initial = 0
    /\ _max_size = 0
    /\ _pool = <<>>
    /\ _active = {}
    /\ held = {}
    /\ plast = OpRec("init", <<>>, NoObj, FALSE, <<>>, {}, NoObj)

\* a // b for b # 0: the quotient rounded towards minus infinity (\div does
\* so for a positive divisor).
FloorDiv(a, b) == IF b > 0 THEN a \div b ELSE (0 - a) \div (0 - b)

\* SpatialHash._get_cell: (int(x // cell_size), int(y // cell_size))
GetCell(cs, x, y) == <<FloorDiv(x, cs), FloorDiv(y, cs)>>

\* for cx in range(min_cell[0], max_cell[0] + 1):
\*     for cy in range(min_cell[1], max_cell[1] + 1): cells.append((cx, cy))
CellRange(minc, maxc) ==
    LET w == IF maxc[1] >= minc[1] THEN maxc[1] - minc[1] + 1 ELSE 0
        h == IF maxc[2] >= minc[2] THEN maxc[2] - minc[2] + 1 ELSE 0
    IN  [i \in 1..(w * h) |->
            <<minc[1] + ((i - 1) \div h), minc[2] + ((i - 1) % h)>>]

\* A cell list made of the cell of the centre alone.
GetCellsForEntityCentre(cs, e) ==
    CellRange(GetCell(cs, e.x, e.y), GetCell(cs, e.x, e.y))

\* SpatialHash._get_cells_for_entity
GetCellsForEntity(cs, e) ==
    CellRange(GetCell(cs, e.x - e.radius, e.y - e.radius),
              GetCell(cs, e.x + e.radius, e.y + e.radius))

\* self._grid.get(cell, ())
GridGet(g, cell) == IF cell \in DOMAIN g THEN g[cell] ELSE <<>>

\* for cell in cells: self._grid[cell].append(entity)
\* on a defaultdict(list): a cell that has no list yet gets one.  The cells
\* of the list are distinct, so each gets the entity appended once.
InsertCells(g, cells, name) ==
    [c \in DOMAIN g \cup Range(cells) |->
        IF c \in Range(cells) THEN Append(GridGet(g, c), name) ELSE g[c]]

\* A neighbourhood loop written `for dx in (-1, 1)`: the cell itself and its
\* axis neighbours are left out.
OffsetsWithoutZero == <<-1, 1>>

\* A neighbourhood loop reaching two cells in each direction.
OffsetsWide == <<-2, -1, 0, 1, 2>>

\* for dx in (-1, 0, 1): / for dy in (-1, 0, 1):
Offsets == <<-1, 0, 1>>

\* The k-th neighbour of the loops `for dx in ...: for dy in ...:
\* neighbor = (cell[0] + dx, cell[1] + dy)`, k counted from 0.
Neighbor(cell, k) ==
    <<cell[1] + Offsets[(k \div Len(Offsets)) + 1],
      cell[2] + Offsets[(k % Len(Offsets)) + 1]>>

\* The block of cells scanned around one cell, in order.
Block(cell) ==
    [k \in 1..(Len(Offsets) * Len(Offsets)) |-> Neighbor(cell, k - 1)]

\* The cells a query visits, in order: the block of each cell in turn.
ScanOrder(cells) ==
    LET n == Len(Offsets) * Len(Offsets)
    IN  [i \in 1..(n * Len(cells)) |->
            Neighbor(cells[((i - 1) \div n) + 1], (i - 1) % n)]

\* Calling a generator function runs none of its lines: the call returns a
\* generator that has not started.
Generator(k, args) == [NoQuery EXCEPT !.kind = k, !.args = args,
                                      !.state = "created"]

\* An exception that ended a call.
Raised(k, args) == [NoQuery EXCEPT !.kind = k, !.args = args,
                                   !.state = "raised"]

\* query() without `seen.add(id(entity))`.
QueryFrameWithSelf(gen, cs, es) ==
    [gen EXCEPT !.seen = {},
                !.scan = ScanOrder(GetCellsForEntity(cs, es[gen.args[1]]))]

\* SpatialHash.query, from its first line to the loops: seen holds the
\* entity, the loops visit the block of each cell of the entity.
QueryFrame(gen, cs, es) ==
    [gen EXCEPT !.seen = {gen.args[1]},
                !.scan = ScanOrder(GetCellsForEntity(cs, es[gen.args[1]]))]

\* SpatialHash.query_point, from its first line to the loops.
QueryPointFrame(gen, cs) ==
    [gen EXCEPT !.seen = {},
                !.scan = Block(GetCell(cs, gen.args[1], gen.args[2]))]

\* A query_rect that scans the 3x3 block of every covered cell, as query does.
QueryRectFrameExpanded(gen, cs) ==
    [gen EXCEPT !.seen = {},
                !.scan = ScanOrder(CellRange(
                             GetCell(cs, gen.args[1], gen.args[2]),
                             GetCell(cs, gen.args[3], gen.args[4])))]

\* SpatialHash.query_rect, from its first line to the loops.
QueryRectFrame(gen, cs) ==
    [gen EXCEPT !.seen = {},
                !.scan = CellRange(GetCell(cs, gen.args[1], gen.args[2]),
                                   GetCell(cs, gen.args[3], gen.args[4]))]

\* A yield loop that checks `seen` but never adds to it.
SeenNoAdd(seen, oid) == seen

\* seen.add(oid)
SeenAdd(seen, oid) == seen \cup {oid}

\* The list the innermost loop iterates: the list of the visited cell, which
\* insert() goes on appending to, or the list the generator alone still
\* holds (clear() emptied the dict, not the list), or () for a cell that had
\* no list when the loop reached it.
CurrentList(gen, g) == IF gen.live THEN g[gen.scan[gen.pos]] ELSE gen.held

\* StopIteration: the loops are over and the frame is gone.
Exhausted(gen) ==
    [gen EXCEPT !.state = "done", !.scan = <<>>, !.pos = 0, !.idx = 0,
                !.seen = {}, !.held = <<>>, !.live = FALSE]

\* The entries of lst after the first `done` that the loop body yields:
\* those with `oid not in seen`.
Unseen(lst, done, seen) == {i \in (done + 1)..Len(lst) : lst[i] \notin seen}

\* The first of a set of positions.
First(S) == CHOOSE m \in S : \A k \in S : m <= k

\* if oid not in seen: seen.add(oid); yield other
\* for the entry i of the list of the cell p: the generator is suspended
\* there.
YieldAt(gen, p, i, other) ==
    [gen EXCEPT !.pos = p, !.idx = i,
                !.seen = SeenAdd(@, other),
                !.result = Append(@, other),
                !.state = "suspended"]

\* One next(): the loops run on from where they stand, over the index as it
\* is now, to the next `yield other` or to the end: first through the rest
\* of the list being iterated, then through the lists of the cells that
\* follow, `self._grid.get(neighbor, ())` being read when the loop reaches
\* the cell.
Resume(gen, g) ==
    LET cur == IF gen.pos = 0 THEN <<>> ELSE CurrentList(gen, g)
        here == Unseen(cur, gen.idx, gen.seen)
        later == {p \in (gen.pos + 1)..Len(gen.scan) :
                     Unseen(GridGet(g, gen.scan[p]), 0, gen.seen) # {}}
    IN  IF here # {}
        THEN YieldAt(gen, gen.pos, First(here), cur[First(here)])
        ELSE IF later # {}
        THEN LET p == First(later)
                 lst == g[gen.scan[p]]
                 i == First(Unseen(lst, 0, gen.seen))
             IN  YieldAt([gen EXCEPT !.held = <<>>, !.live = TRUE],
                         p, i, lst[i])
        ELSE Exhausted(gen)

\* What an insert() does to the generator at hand: nothing to its frame (the
\* list it iterates is the one insert() appends to).  A generator that is
\* exhausted, or a call that raised, is dropped with the change of the index.
AfterInsert(gen) ==
    IF gen.state = "created" THEN gen
    ELSE IF gen.state = "suspended" THEN [gen EXCEPT !.changed = TRUE]
    ELSE NoQuery

\* What a clear() does to the generator at hand: the dict is emptied, the
\* list a suspended generator iterates stays with the generator.
AfterClear(gen, g) ==
    IF gen.state = "created" THEN gen
    ELSE IF gen.state = "suspended"
    THEN [gen EXCEPT !.changed = TRUE, !.held = CurrentList(gen, g),
                     !.live = FALSE]
    ELSE NoQuery

\* SpatialHash.entity_count / cell_count
entity_count == Cardinality(DOMAIN _entity_cells)
cell_count == Cardinality(DOMAIN _grid)

\* SpatialHash.__init__: an empty index.
GridEmpty ==
    /\ _grid = EmptyMap
    /\ _entity_cells = EmptyMap
    /\ n_ins = 0
    /\ wiped = FALSE
    /\ q = NoQuery

\* Two entities placed anywhere in the small arena, or the three entities of
\* the end-to-end scenario (cell_size 128).
GridInit ==
    /\ PoolIdle
    /\ EntityIdle
    /\ LoopIdle
    /\ ScanIdle
    /\ SessionIdle
    /\ GridEmpty
    /\ \/ /\ cell_size \in CellSizes
          /\ ents \in [{"A", "B"} -> Placements]
       \/ /\ cell_size = 128
          /\ ents = ("A" :> Entity(0, 0, 20)) @@ ("B" :> Entity(30, 0, 20))
                       @@ ("C" :> Entity(1000, 1000, 20))

\* One entity placed anywhere in the small arena and one at the origin, for
\* the point and box lookups.
AreaInit ==
    /\ PoolIdle
    /\ EntityIdle
    /\ LoopIdle
    /\ ScanIdle
    /\ SessionIdle
    /\ GridEmpty
    /\ cell_size \in CellSizes
    /\ \E p \in Placements : ents = ("A" :> p) @@ ("B" :> Entity(0, 0, 0))

\* A clear() that forgets the bookkeeping but not the cells.
clearBookkeepingOnly ==
    /\ _entity_cells' = EmptyMap
    /\ n_ins' = 0
    /\ wiped' = (wiped \/ n_ins > 0)
    /\ q' = AfterInsert(q)
    /\ UNCHANGED <<cell_size, ents, _grid, poolVars, entityVars, loopVars, scanVars, sessionVars>>

\* SpatialHash.clear
clear ==
    /\ _grid' = EmptyMap
    /\ _entity_cells' = EmptyMap
    /\ n_ins' = 0
    /\ wiped' = (wiped \/ n_ins > 0)
    /\ q' = AfterClear(q, _grid)
    /\ UNCHANGED <<cell_size, ents, poolVars, entityVars, loopVars, scanVars, sessionVars>>

\* SpatialHash.insert, when it returns (see insert_raises for the calls that
\* end in an exception).
insert ==
    \E name \in DOMAIN ents :
        LET cells == GetCellsForEntity(cell_size, ents[name]) IN
        /\ n_ins < Cardinality(DOMAIN ents) + MaxExtraInserts
        /\ cell_size # 0
        /\ cells # <<>>
        /\ _grid' = InsertCells(_grid, cells, name)
        /\ _entity_cells' = [k \in DOMAIN _entity_cells \cup {name} |->
                                IF k = name THEN cells[1] ELSE _entity_cells[k]]
        /\ n_ins' = n_ins + 1
        /\ wiped' = FALSE
        /\ q' = AfterInsert(q)
        /\ UNCHANGED <<cell_size, ents, poolVars, entityVars, loopVars, scanVars, sessionVars>>

\* SpatialHash.query: the call.  One generator is followed at a time: a
\* second one would read the index as the first does and write nothing.
query ==
    \E name \in DOMAIN ents :
        /\ q = NoQuery
        /\ q' = Generator("query", <<name>>)
        /\ UNCHANGED <<cell_size, ents, _grid, _entity_cells, n_ins, wiped,
                   poolVars, entityVars, loopVars, scanVars, sessionVars>>

\* SpatialHash.query_point: the call.
query_point ==
    \E x \in Coords, y \in Coords :
        /\ q = NoQuery
        /\ q' = Generator("query_point", <<x, y>>)
        /\ UNCHANGED <<cell_size, ents, _grid, _entity_cells, n_ins, wiped,
                   poolVars, entityVars, loopVars, scanVars, sessionVars>>

\* SpatialHash.query_rect: the call.
query_rect ==
    \E x1 \in Coords, y1 \in Coords, x2 \in Coords, y2 \in Coords :
        /\ q = NoQuery
        /\ q' = Generator("query_rect", <<x1, y1, x2, y2>>)
        /\ UNCHANGED <<cell_size, ents, _grid, _entity_cells, n_ins, wiped,
                   poolVars, entityVars, loopVars, scanVars, sessionVars>>

\* The cells the loops of the generator reach in the step from gen to nxt.
Visited(gen, nxt) ==
    LET scan == IF gen.state = "created" THEN nxt.scan ELSE gen.scan
        last == IF nxt.state = "done" THEN Len(scan) ELSE nxt.pos
    IN  {scan[i] : i \in (IF gen.pos = 0 THEN 1 ELSE gen.pos)..last}

\* A query() that reads the cells with self._grid[neighbor]: the defaultdict
\* creates an empty list for every scanned cell that has none.
query_nextCreatingCells ==
    /\ q.kind = "query"
    /\ q.state \in {"created", "suspended"}
    /\ cell_size # 0
    /\ \E nxt \in {Resume(IF q.state = "created"
                            THEN QueryFrame(q, cell_size, ents) ELSE q, _grid)} :
          /\ q' = nxt
          /\ _grid' = [c \in DOMAIN _grid
                             \cup (IF nxt.state = "done" /\ q.state = "created"
                                   THEN Range(QueryFrame(q, cell_size, ents).scan)
                                   ELSE Visited(q, nxt))
                          |-> GridGet(_grid, c)]
    /\ UNCHANGED <<cell_size, ents, _entity_cells, n_ins, wiped,
                   poolVars, entityVars, loopVars, scanVars, sessionVars>>

\* One next() on the generator of query(): the first one runs the function
\* from its first line, each one stops at the next yield or ends the
\* generator.
query_next ==
    /\ q.kind = "query"
    /\ q.state \in {"created", "suspended"}
    /\ cell_size # 0
    /\ q' = Resume(IF q.state = "created"
                   THEN QueryFrame(q, cell_size, ents) ELSE q, _grid)
    /\ UNCHANGED <<cell_size, ents, _grid, _entity_cells, n_ins, wiped,
                   poolVars, entityVars, loopVars, scanVars, sessionVars>>

\* One next() on the generator of query_point().
query_point_next ==
    /\ q.kind = "query_point"
    /\ q.state \in {"created", "suspended"}
    /\ cell_size # 0
    /\ q' = Resume(IF q.state = "created"
                   THEN QueryPointFrame(q, cell_size) ELSE q, _grid)
    /\ UNCHANGED <<cell_size, ents, _grid, _entity_cells, n_ins, wiped,
                   poolVars, entityVars, loopVars, scanVars, sessionVars>>

\* One next() on the generator of query_rect().
query_rect_next ==
    /\ q.kind = "query_rect"
    /\ q.state \in {"created", "suspended"}
    /\ cell_size # 0
    /\ q' = Resume(IF q.state = "created"
                   THEN QueryRectFrame(q, cell_size) ELSE q, _grid)
    /\ UNCHANGED <<cell_size, ents, _grid, _entity_cells, n_ins, wiped,
                   poolVars, entityVars, loopVars, scanVars, sessionVars>>

\* SpatialHash.insert ending in an exception: ZeroDivisionError from
\* _get_cell when cell_size is 0, IndexError from cells[0] when the entity
\* overlaps no cell (a negative cell_size turns the cell range around).
\* Nothing was stored by then.
insert_raises ==
    \E name \in DOMAIN ents :
        /\ q = NoQuery
        /\ \/ /\ cell_size = 0
              /\ q' = Raised("ZeroDivisionError", <<"insert", name>>)
           \/ /\ cell_size # 0
              /\ GetCellsForEntity(cell_size, ents[name]) = <<>>
              /\ q' = Raised("IndexError", <<"insert", name>>)
        /\ UNCHANGED <<cell_size, ents, _grid, _entity_cells, n_ins, wiped,
                       poolVars, entityVars, loopVars, scanVars, sessionVars>>

\* The first next() on the generator of query() ending in ZeroDivisionError
\* (cell_size is 0): _get_cells_for_entity divides by the cell size.
query_raises ==
    /\ q.kind = "query"
    /\ q.state = "created"
    /\ cell_size = 0
    /\ q' = Raised("ZeroDivisionError", <<"query", q.args[1]>>)
    /\ UNCHANGED <<cell_size, ents, _grid, _entity_cells, n_ins, wiped,
                   poolVars, entityVars, loopVars, scanVars, sessionVars>>

\* SpatialHash(cell_size) for any cell_size, zero and negative included:
\* __init__ stores the argument as it is.
UncheckedInit ==
    /\ PoolIdle
    /\ EntityIdle
    /\ LoopIdle
    /\ ScanIdle
    /\ SessionIdle
    /\ GridEmpty
    /\ cell_size \in (0 - MaxCellSize)..MaxCellSize
    /\ ents \in [{"A", "B"} -> Placements]

UncheckedNext ==
    clear \/ insert \/ query \/ query_next \/ insert_raises \/ query_raises

UncheckedSpec == UncheckedInit /\ [][UncheckedNext]_vars

GridNext == clear \/ insert \/ query \/ query_next

GridSpec == GridInit /\ [][GridNext]_vars

AreaNext ==
    clear \/ insert \/ query \/ query_next \/ query_point \/ query_point_next
        \/ query_rect \/ query_rect_next

AreaSpec == AreaInit /\ [][AreaNext]_vars

(***************************************************************************)
(* Asteroid and Shot (src/asteroid.py, src/shot.py): entities that are     *)
(* acquired from and released to the pool of their class.  A behaviour     *)
(* exercises one of the two classes; _pool, _active and _max_size are the  *)
(* pool of that class.                                                     *)
(*                                                                         *)
(* A vector that was rotated and scaled is kept as its integer base, the   *)
(* sum of the rotation angles (degrees) and the number of factors 1.2; a   *)
(* position as the coordinates it was set to and the velocities that       *)
(* update() added to it since (each times the dt of its frame).            *)
(***************************************************************************)
\* The value None.
None == "None"

\* constants.py is not part of the sources at hand; main.py line 51 builds
\* the pooled asteroids with radius 20.
ASTEROID_MIN_RADIUS == 20
SHOT_RADIUS == 5
\* Shot.max_lifetime, in update() steps.
MaxLifetime == 2

\* AsteroidField.update: radius = ASTEROID_MIN_RADIUS * kind, kind in 1..MaxKind
AsteroidRadii == {ASTEROID_MIN_RADIUS * k : k \in 1..MaxKind}

\* The position (x, y), not moved yet.
At(x, y) == [x |-> x, y |-> y, drift |-> <<>>]

\* The positions handed to acquire() by the spawner and the player.
Positions == {At(3, 4)}

\* random.uniform(20, 50): the two ends of the interval.
Thetas == {20, 50}

\* The keyword arguments of Asteroid.acquire: none, or the two AsteroidField
\* passes.
NoMeta == [debris_data |-> None, norad_id |-> None]
Metas == {NoMeta, [debris_data |-> "debris", norad_id |-> "norad"]}

ZeroVelocity == [vx |-> 0, vy |-> 0, rot |-> 0, gain |-> 0]
\* The velocity a caller assigns after acquire (asteroid.velocity = velocity).
GivenVelocity == [vx |-> 1, vy |-> 0, rot |-> 0, gain |-> 0]

IsZero(v) == v.vx = 0 /\ v.vy = 0

\* Vector2.rotate(angle): the zero vector stays the zero vector.
Rotate(v, angle) ==
    IF IsZero(v) THEN v ELSE [v EXCEPT !.rot = (@ + angle) % 360]

\* Vector2 * 1.2
Times12(v) == IF IsZero(v) THEN v ELSE [v EXCEPT !.gain = @ + 1]

\* Asteroid.containers / Shot.containers as main() sets them (lines 61-62).
Containers(k) ==
    IF k = "Asteroid" THEN {"asteroids", "updatable", "drawable"}
    ELSE {"updatable", "drawable", "shots"}

\* CircleShape.__init__ and Asteroid.__init__: the fields of a new Asteroid.
NewAsteroid(position, radius) ==
    [cls |-> "Asteroid", position |-> position,
     velocity |-> ZeroVelocity, radius |-> radius, alive |-> TRUE,
     scanned |-> FALSE, full_scanned |-> FALSE,
     debris_data |-> None, norad_id |-> None]

\* CircleShape.__init__ and Shot.__init__: the fields of a new Shot.
NewShot(position) ==
    [cls |-> "Shot", position |-> position,
     velocity |-> ZeroVelocity, radius |-> SHOT_RADIUS, alive |-> TRUE,
     lifetime |-> 0]

\* The factory of the pool: lambda: Asteroid(0, 0, 20) / lambda: Shot(0, 0).
Factory(k) == IF k = "Asteroid" THEN NewAsteroid(At(0, 0), 20)
              ELSE NewShot(At(0, 0))

\* An Asteroid.reset that leaves the velocity of the previous use in place.
Asteroid_resetKeepsVelocity(e, position, radius, meta) ==
    [e EXCEPT !.position = position,
              !.radius = radius, !.alive = TRUE,
              !.scanned = FALSE, !.full_scanned = FALSE,
              !.debris_data = meta.debris_data, !.norad_id = meta.norad_id]

\* Asteroid.reset (acquire always passes a radius, so `radius is not None`).
Asteroid_reset(e, position, radius, meta) ==
    [e EXCEPT !.position = position,
              !.velocity = ZeroVelocity,
              !.radius = radius, !.alive = TRUE,
              !.scanned = FALSE, !.full_scanned = FALSE,
              !.debris_data = meta.debris_data, !.norad_id = meta.norad_id]

\* Shot.reset
Shot_reset(e, position) ==
    [e EXCEPT !.position = position,
              !.velocity = ZeroVelocity, !.alive = TRUE, !.lifetime = 0]

\* The objects, groups and pool as one value, for the operations that are
\* made of several calls.
World(o, g, pl, ac) == [objs |-> o, groups |-> g, pool |-> pl, active |-> ac]

\* kill() that removes the sprite from the updatable group only.
KillUpdatableOnly(w, obj) ==
    [w EXCEPT !.groups["updatable"] = Without(@, obj)]

\* Sprite.kill(): remove the sprite from every group.
Kill(w, obj) ==
    [w EXCEPT !.groups = [g \in GroupNames |-> Without(w.groups[g], obj)]]

\* for container in containers: container.add(self)
AddToContainers(w, obj, k) ==
    [w EXCEPT !.groups = [g \in GroupNames |->
        IF g \in Containers(k) /\ obj \notin Range(w.groups[g])
        THEN Append(w.groups[g], obj) ELSE w.groups[g]]]

\* The members of some group.
Members(g) == UNION {Range(g[n]) : n \in GroupNames}

\* A release() in which neither kill() nor the pool removes the entity from
\* its groups.
EntityReleaseNoKill(w, obj, withPool, m) ==
    LET w1 == [w EXCEPT !.objs[obj].alive = FALSE]
        st == ReleaseStep(PoolState(w1.pool, w1.active), m, obj)
    IN  IF withPool
        THEN [w1 EXCEPT !.pool = st.pool, !.active = st.active]
        ELSE w1

\* Asteroid.release / Shot.release: _alive = False, kill(), and, with a
\* pool, ObjectPool.release (which removes an active sprite from the groups
\* it is still in).
EntityRelease(w, obj, withPool, m) ==
    LET w1 == [w EXCEPT !.objs[obj].alive = FALSE]
        w2 == Kill(w1, obj)
        st == ReleaseStep(PoolState(w2.pool, w2.active), m, obj)
    IN  IF withPool
        THEN [w2 EXCEPT !.pool = st.pool, !.active = st.active,
                        !.groups = ReleasedFromGroups(@, w2.active, obj)]
        ELSE w2

\* The parameters of acquire().
Params(position, radius, meta) ==
    [position |-> position, radius |-> radius, meta |-> meta]

\* The identities a new object can get while the caller holds refs: those of
\* no object that the pool, a group or the caller refers to.
Fresh(w, refs) == Ids \ (Range(w.pool) \cup Members(w.groups) \cup refs)

\* The objects acquire() can return: the rightmost pooled instance, or else
\* a new object.
Acquirable(w, refs, withPool) ==
    IF withPool /\ w.pool # <<>> THEN {Pop(w.pool).obj} ELSE Fresh(w, refs)

\* cls._pool.acquire() returning obj: pop, or factory() (a new object
\* registers itself in the containers of its class); mark active.
PoolAcquire(w, obj, k) ==
    LET w1 == IF w.pool # <<>>
              THEN [w EXCEPT !.pool = Pop(w.pool).rest]
              ELSE AddToContainers([w EXCEPT !.objs[obj] = Factory(k)], obj, k)
    IN  [w1 EXCEPT !.active = w1.active \cup {obj}]

\* Asteroid.acquire returning obj
Asteroid_acquire(w, obj, p, withPool) ==
    IF withPool
    THEN LET w1 == PoolAcquire(w, obj, "Asteroid")
             w2 == [w1 EXCEPT !.objs[obj] =
                        Asteroid_reset(@, p.position, p.radius, p.meta)]
         IN  AddToContainers(w2, obj, "Asteroid")
    ELSE AddToContainers(
             [w EXCEPT !.objs[obj] = NewAsteroid(p.position, p.radius)],
             obj, "Asteroid")

\* Shot.acquire returning obj
Shot_acquire(w, obj, p, withPool) ==
    IF withPool
    THEN LET w1 == PoolAcquire(w, obj, "Shot")
             w2 == [w1 EXCEPT !.objs[obj] = Shot_reset(@, p.position)]
         IN  AddToContainers(w2, obj, "Shot")
    ELSE AddToContainers([w EXCEPT !.objs[obj] = NewShot(p.position)],
                         obj, "Shot")

\* Objects that nothing refers to are collected: their fields are gone and
\* their identity is free.
Collect(o, pl, h) ==
    [i \in Ids |-> IF i \in Range(pl) \cup h THEN o[i] ELSE NoEnt]

\* The record kept of an entity operation: the entity it was called on, its
\* arguments (for release: the available count and whether the entity was
\* active, before the call), the objects it returned, the fields the entity
\* (for acquire: the returned object) had before the call, and the angle
\* split() drew.
EntityOp(op, self, args, ret, pre, theta) ==
    [op |-> op, self |-> self, args |-> args, ret |-> ret, pre |-> pre,
     theta |-> theta]

\* The state after an entity operation that ended in world w: the callers
\* keep every reference they had and hold the objects refs as well.
Settle(w, refs, rec) ==
    LET h == held \cup Members(w.groups) \cup refs IN
    /\ _pool' = w.pool
    /\ _active' = w.active
    /\ groups' = w.groups
    /\ held' = h
    /\ objs' = Collect(w.objs, w.pool, h)
    /\ elast' = rec
    /\ UNCHANGED <<initial, _max_size, plast, kind, pooled, gridVars, loopVars, scanVars, sessionVars>>

\* The classes after main() lines 47-65: the pool was built while the class
\* had no containers, so the pre-warmed instances are in no group; then the
\* containers were set, and the pool was attached (or, without pooling, no
\* pool exists).
EntityInit ==
    /\ kind \in {"Asteroid", "Shot"}
    /\ pooled \in BOOLEAN
    /\ IF pooled
       THEN /\ _max_size \in 0..MaxSize
            /\ initial \in 0..MaxInitial
            /\ initial <= _max_size
       ELSE /\ _max_size = 0
            /\ initial = 0
    /\ _pool = Prewarm(<<>>, _max_size, initial)
    /\ _active = {}
    /\ held = {}
    /\ plast = OpRec("init", <<>>, NoObj, FALSE, <<>>, {}, NoObj)
    /\ objs = [i \in Ids |-> IF i \in Range(_pool) THEN Factory(kind) ELSE NoEnt]
    /\ groups = [g \in GroupNames |-> <<>>]
    /\ elast = NoEntityOp
    /\ calls = 0
    /\ GridIdle
    /\ LoopIdle
    /\ ScanIdle
    /\ SessionIdle

\* The callers of acquire (AsteroidField.spawn, Player.shoot) assign the
\* velocity of the entity in their next statement: nothing else runs between
\* the two.
CallerReady == elast.op # "acquire"

\* One more call by the callers of the entity classes.
Called ==
    /\ calls < MaxCalls
    /\ calls' = calls + 1

\* A call of Asteroid.acquire(x, y, radius, **kwargs)
AsteroidAcquire ==
    /\ kind = "Asteroid"
    /\ CallerReady
    /\ Called
    /\ \E position \in Positions, radius \in AsteroidRadii, meta \in Metas :
        LET w == World(objs, groups, _pool, _active)
            p == Params(position, radius, meta)
        IN  \E obj \in Acquirable(w, held, pooled) :
                Settle(Asteroid_acquire(w, obj, p, pooled), {obj},
                       EntityOp("acquire", NoObj, p, <<obj>>, objs[obj], 0))

\* A call of Shot.acquire(x, y)
ShotAcquire ==
    /\ kind = "Shot"
    /\ CallerReady
    /\ Called
    /\ \E position \in Positions :
        LET w == World(objs, groups, _pool, _active)
            p == Params(position, SHOT_RADIUS, NoMeta)
        IN  \E obj \in Acquirable(w, held, pooled) :
                Settle(Shot_acquire(w, obj, p, pooled), {obj},
                       EntityOp("acquire", NoObj, p, <<obj>>, objs[obj], 0))

\* asteroid.velocity = velocity (asteroidfield.py line 51) and
\* shot.velocity = velocity (player.py line 133): the caller of acquire sets
\* the velocity of the entity it got.
SetVelocity ==
    /\ elast.op = "acquire"
    /\ LET obj == elast.ret[1]
           w == World([objs EXCEPT ![obj].velocity = GivenVelocity],
                      groups, _pool, _active)
       IN  Settle(w, {obj}, EntityOp("set_velocity", obj, <<>>, <<>>,
                                     NoEnt, 0))
    /\ UNCHANGED calls

\* Player._update_scan marking its target: a quick scan sets _scanned, a full
\* scan sets _full_scanned and _scanned.  The target is a live asteroid.
Scan ==
    /\ kind = "Asteroid"
    /\ CallerReady
    /\ Called
    /\ \E obj \in Range(groups["asteroids"]), full \in BOOLEAN :
        /\ objs[obj].alive
        /\ IF full THEN ~objs[obj].full_scanned ELSE ~objs[obj].scanned
        /\ LET w == World([objs EXCEPT ![obj].scanned = TRUE,
                                       ![obj].full_scanned = (@ \/ full)],
                          groups, _pool, _active)
           IN  Settle(w, {obj}, EntityOp("scan", obj, <<full>>, <<>>,
                                         NoEnt, 0))

\* position += velocity * dt
Moved(position, v) ==
    IF IsZero(v) THEN position
    ELSE [position EXCEPT !.drift = Append(@, v)]

\* Shot.update of one member of the group `updatable`: the shot moves and
\* ages; a shot whose lifetime reaches max_lifetime releases itself.
Shot_update ==
    /\ kind = "Shot"
    /\ CallerReady
    /\ Called
    /\ \E obj \in Range(groups["updatable"]) :
        LET e == objs[obj]
            w == World(objs, groups, _pool, _active)
            w1 == [w EXCEPT !.objs[obj].position = Moved(e.position, e.velocity),
                            !.objs[obj].lifetime = @ + 1]
        IN  /\ e.alive
            /\ Len(Moved(e.position, e.velocity).drift) <= MaxMoves
            /\ Settle(IF e.lifetime + 1 >= MaxLifetime
                      THEN EntityRelease(w1, obj, pooled, _max_size)
                      ELSE w1,
                      {obj}, EntityOp("update", obj, <<>>, <<>>, NoEnt, 0))

\* A call of entity.release() on an entity the caller refers to.
release_entity ==
    /\ CallerReady
    /\ Called
    /\ \E obj \in held :
        LET w == World(objs, groups, _pool, _active)
        IN  Settle(EntityRelease(w, obj, pooled, _max_size), {obj},
                   EntityOp("release", obj, <<Len(_pool), obj \in _active>>,
                            <<>>, objs[obj], 0))

\* A spawn loop that forgets the factor 1.2.
SplitChildUnscaled(w, e, angle_offset, c, withPool) ==
    LET p == Params(e.position, e.radius - ASTEROID_MIN_RADIUS, NoMeta)
        w1 == Asteroid_acquire(w, c, p, withPool)
    IN  [w1 EXCEPT !.objs[c].velocity = Rotate(e.velocity, angle_offset)]

\* A spawn loop that reads the velocity from the instance it just acquired
\* (what `self.velocity` holds once the pool has handed self back and reset
\* it) instead of the saved copy.
SplitChildReadsInstance(w, e, angle_offset, c, withPool) ==
    LET p == Params(e.position, e.radius - ASTEROID_MIN_RADIUS, NoMeta)
        w1 == Asteroid_acquire(w, c, p, withPool)
    IN  [w1 EXCEPT !.objs[c].velocity =
                       Times12(Rotate(w1.objs[c].velocity, angle_offset))]

\* Asteroid.split, one round of the spawn loop: the child c is acquired at
\* the saved position with the new radius and gets the saved velocity,
\* rotated by angle_offset and scaled.
SplitChild(w, e, angle_offset, c, withPool) ==
    LET p == Params(e.position, e.radius - ASTEROID_MIN_RADIUS, NoMeta)
        w1 == Asteroid_acquire(w, c, p, withPool)
    IN  [w1 EXCEPT !.objs[c].velocity =
                       Times12(Rotate(e.velocity, angle_offset))]

\* A split() that hands the instance back to the deque of the pool and does
\* nothing else to it: _alive and the groups stay as they are.
SplitReleaseToPoolOnly(w, self, withPool, m) ==
    LET st == ReleaseStep(PoolState(w.pool, w.active), m, self)
    IN  IF withPool THEN [w EXCEPT !.pool = st.pool, !.active = st.active]
        ELSE Kill(w, self)

\* Asteroid.split up to the spawn loop: mark dead, release() or kill().
SplitRelease(w, self, withPool, m) ==
    LET w1 == [w EXCEPT !.objs[self].alive = FALSE]
    IN  IF withPool THEN EntityRelease(w1, self, TRUE, m) ELSE Kill(w1, self)

\* A call of asteroid.split() on an asteroid the caller refers to.
split ==
    /\ kind = "Asteroid"
    /\ CallerReady
    /\ Called
    /\ \E self \in held, theta \in Thetas :
        LET e == objs[self]
            w == SplitRelease(World(objs, groups, _pool, _active), self,
                              pooled, _max_size)
        IN  IF e.radius <= ASTEROID_MIN_RADIUS
            THEN Settle(w, {self}, EntityOp("split", self, <<>>, <<>>, e, theta))
            ELSE \E c1 \in Acquirable(w, held, pooled) :
                   LET w1 == SplitChild(w, e, theta, c1, pooled) IN
                   \E c2 \in Acquirable(w1, held \cup {c1}, pooled) :
                     Settle(SplitChild(w1, e, 0 - theta, c2, pooled),
                            {self, c1, c2},
                            EntityOp("split", self, <<>>, <<c1, c2>>, e, theta))

\* A caller drops its reference to an entity that is in no group: once
\* neither the pool nor a caller refers to the object it is collected.
forget_entity ==
    /\ CallerReady
    /\ \E obj \in held \ Members(groups) :
        /\ held' = held \ {obj}
        /\ objs' = Collect(objs, _pool, held')
        /\ elast' = EntityOp("forget", obj, <<>>, <<>>, NoEnt, 0)
        /\ UNCHANGED <<initial, _max_size, _pool, _active, groups, plast,
                       kind, pooled, calls, gridVars, loopVars, scanVars,
                       sessionVars>>

EntityNext ==
    \/ AsteroidAcquire
    \/ ShotAcquire
    \/ SetVelocity
    \/ Scan
    \/ Shot_update
    \/ release_entity
    \/ split
    \/ forget_entity

EntitySpec == EntityInit /\ [][EntityNext]_vars

(***************************************************************************)
(* The game loop of main() (src/main.py lines 77-166).  Both pools exist   *)
(* here, asteroid_pool and shot_pool, each with max_size MaxSize and       *)
(* Prewarmed instances.  The positions of the index are not modelled: the  *)
(* index is the list of what was inserted since the last clear(), and a    *)
(* query may report a collision with any asteroid in it.                   *)
(***************************************************************************)

\* The player: a sprite that is no pooled object.
PlayerId == MaxIds + 1

Classes == {"Asteroid", "Shot"}
Other(k) == IF k = "Asteroid" THEN "Shot" ELSE "Asteroid"

\* The objects, the groups and the two pools as one value.
LoopWorld(o, g, ps) == [objs |-> o, groups |-> g, pools |-> ps]

\* The world as the class k sees it: the objects, the groups, its own pool.
View(L, k) == World(L.objs, L.groups, L.pools[k].pool, L.pools[k].active)

\* The loop world after an operation of class k that ended in world w.
Back(L, k, w) ==
    LoopWorld(w.objs, w.groups,
              [L.pools EXCEPT ![k] = PoolState(w.pool, w.active)])

\* What main() still refers to besides the groups and the pools: the
\* entities in the index and in the two side lists of the last iteration.
Referenced ==
    (Range(indexed) \cup Range(shots_to_remove) \cup Range(asteroids_to_split))
        \cap Ids

\* The objects an acquire() of class k can return.
LoopAcquirable(L, k, refs) ==
    Acquirable(View(L, k), Range(L.pools[Other(k)].pool) \cup refs, TRUE)

\* position += velocity * dt, recorded for the first MaxMoves moves.
LoopMoved(position, v) ==
    IF Len(position.drift) >= MaxMoves THEN position ELSE Moved(position, v)

\* Player.update: with the space key down and the cooldown over, shoot():
\* Shot.acquire at the player's position, then shot.velocity = velocity.
PlayerUpdate(L, refs) ==
    {L} \cup
    {Back(L, "Shot",
          LET w == Shot_acquire(View(L, "Shot"), obj,
                                Params(position, SHOT_RADIUS, NoMeta), TRUE)
          IN  [w EXCEPT !.objs[obj].velocity = GivenVelocity]) :
        obj \in LoopAcquirable(L, "Shot", refs), position \in Positions}

\* AsteroidField.update: when the spawn timer is over, spawn():
\* Asteroid.acquire with the metadata of a debris object, then
\* asteroid.velocity = velocity.
FieldUpdate(L, refs) ==
    {L} \cup
    {Back(L, "Asteroid",
          LET w == Asteroid_acquire(View(L, "Asteroid"), s[1],
                                    Params(s[2], s[3], s[4]), TRUE)
          IN  [w EXCEPT !.objs[s[1]].velocity = GivenVelocity]) :
        s \in LoopAcquirable(L, "Asteroid", refs) \X Positions
                \X AsteroidRadii \X (Metas \ {NoMeta})}

\* Shot.update whose expiry marks the shot dead and hands it to the pool
\* but leaves it in its groups.
UpdateSpriteExpiredStays(L, obj) ==
    LET e == L.objs[obj]
        moved == LoopMoved(e.position, e.velocity)
    IN  IF ~e.alive THEN L
        ELSE IF e.cls = "Asteroid"
        THEN [L EXCEPT !.objs[obj].position = moved]
        ELSE LET L1 == [L EXCEPT !.objs[obj].position = moved,
                                 !.objs[obj].lifetime = @ + 1]
             IN  IF e.lifetime + 1 >= MaxLifetime
                 THEN Back(L1, "Shot",
                           EntityReleaseNoKill(View(L1, "Shot"), obj, TRUE,
                                               MaxSize))
                 ELSE L1

\* Asteroid.update / Shot.update of the sprite obj.
UpdateSprite(L, obj) ==
    LET e == L.objs[obj]
        moved == LoopMoved(e.position, e.velocity)
    IN  IF ~e.alive THEN L
        ELSE IF e.cls = "Asteroid"
        THEN [L EXCEPT !.objs[obj].position = moved]
        ELSE LET L1 == [L EXCEPT !.objs[obj].position = moved,
                                 !.objs[obj].lifetime = @ + 1]
             IN  IF e.lifetime + 1 >= MaxLifetime
                 THEN Back(L1, "Shot",
                           EntityRelease(View(L1, "Shot"), obj, TRUE, MaxSize))
                 ELSE L1

\* Group.update: update() of every sprite that was in the group when the
\* call began.
RECURSIVE UpdateSprites(_, _)
UpdateSprites(L, sprites) ==
    IF sprites = <<>> THEN L
    ELSE UpdateSprites(UpdateSprite(L, Head(sprites)), Tail(sprites))

\* The objects and pools after a statement of the loop that ended in world
\* L, main() still referring to refs.
LoopSettle(L, refs) ==
    /\ objs' = Collect(L.objs,
                       L.pools["Asteroid"].pool \o L.pools["Shot"].pool,
                       Members(L.groups) \cup refs)
    /\ groups' = L.groups
    /\ pools' = L.pools
    /\ UNCHANGED <<scanVars, sessionVars, poolVars, gridVars, kind, pooled, elast,
                   calls>>

\* The two pools as main() lines 50-59 build them: asteroid_pool first, then
\* shot_pool, each pre-warmed by its factory while the classes have no
\* containers.
PrewarmedPools ==
    LET a == Prewarm(<<>>, MaxSize, Prewarmed)
    IN  [Asteroid |-> [pool |-> a, active |-> {}],
         Shot |-> [pool |-> [i \in 1..Len(a) |-> Len(a) + a[i]],
                   active |-> {}]]

\* The state of main() when it enters `while running` (lines 35-75): empty
\* groups, the two pre-warmed pools attached to their classes,
\* running = True.
LoopInit ==
    /\ PoolIdle
    /\ GridIdle
    /\ kind = "Asteroid"
    /\ pooled = TRUE
    /\ elast = NoEntityOp
    /\ calls = 0
    /\ pools = PrewarmedPools
    /\ objs = [i \in Ids |->
                IF i \in Range(pools["Asteroid"].pool) THEN Factory("Asteroid")
                ELSE IF i \in Range(pools["Shot"].pool) THEN Factory("Shot")
                ELSE NoEnt]
    /\ groups = [g \in GroupNames |-> <<>>]
    /\ pc = "update"
    /\ it = <<>>
    /\ indexed = <<>>
    /\ shots_to_remove = <<>>
    /\ asteroids_to_split = <<>>
    /\ running = TRUE
    /\ nq = 0
    /\ ScanIdle
    /\ SessionIdle

\* Lines 80-88: the events (QUIT or ESCAPE clears `running`, the iteration
\* goes on) and updatable.update(dt): the player, the field, then the
\* entities that were in the group.
main_update ==
    /\ pc = "update"
    /\ \E quit \in BOOLEAN :
        \E L1 \in PlayerUpdate(LoopWorld(objs, groups, pools), Referenced) :
          \E L2 \in FieldUpdate(L1, Referenced) :
            /\ running' = ~quit
            /\ LoopSettle(UpdateSprites(L2, groups["updatable"]),
                          Referenced)
    /\ pc' = "clear"
    /\ nq' = 0
    /\ UNCHANGED <<it, indexed, shots_to_remove, asteroids_to_split>>

\* A clear() that leaves the index as it is.
spatial_clear_skipped(ix) == ix

\* spatial.clear(): nothing is in the index.
spatial_clear(ix) == <<>>

\* Line 111: spatial.clear(); then the loop over the asteroids begins.
main_clear ==
    /\ pc = "clear"
    /\ indexed' = spatial_clear(indexed)
    /\ pc' = "insert_asteroids"
    /\ it' = groups["asteroids"]
    /\ LoopSettle(LoopWorld(objs, groups, pools),
                  (Range(indexed') \cup Range(shots_to_remove)
                       \cup Range(asteroids_to_split)) \cap Ids)
    /\ UNCHANGED <<shots_to_remove, asteroids_to_split, running, nq>>

\* Lines 112-115: spatial.insert(asteroid) / spatial.insert(shot), one round
\* of the for loop.
main_insert ==
    /\ pc \in {"insert_asteroids", "insert_shots"}
    /\ it # <<>>
    /\ indexed' = Append(indexed, Head(it))
    /\ it' = Tail(it)
    /\ UNCHANGED <<scanVars, sessionVars, poolVars, gridVars, entityVars, pc, pools, shots_to_remove,
                   asteroids_to_split, running, nq>>

\* The statement after the running for loop, once the loop has visited all
\* its items, and the items of the for loop that begins there.
AfterLoop(p) ==
    CASE p = "insert_asteroids" -> "insert_shots"
      [] p = "insert_shots" -> "insert_player"
      [] p = "query_shots" -> "query_player"
      [] p = "release_shots" -> "split_asteroids"
      [] p = "split_asteroids" -> "render"

ItemsOf(p) ==
    CASE p = "insert_shots" -> groups["shots"]
      [] p = "split_asteroids" -> asteroids_to_split
      [] OTHER -> <<>>

\* A for loop of lines 112-150 ends.
main_loop_end ==
    /\ pc \in {"insert_asteroids", "insert_shots", "query_shots",
               "release_shots", "split_asteroids"}
    /\ it = <<>>
    /\ pc' = AfterLoop(pc)
    /\ it' = ItemsOf(pc')
    /\ UNCHANGED <<scanVars, sessionVars, poolVars, gridVars, entityVars, pools, indexed,
                   shots_to_remove, asteroids_to_split, running, nq>>

\* Lines 116-119: spatial.insert(player), the two side lists start empty;
\* then the loop over the shots begins.
main_insert_player ==
    /\ pc = "insert_player"
    /\ indexed' = Append(indexed, PlayerId)
    /\ shots_to_remove' = <<>>
    /\ asteroids_to_split' = <<>>
    /\ pc' = "query_shots"
    /\ it' = groups["shots"]
    /\ LoopSettle(LoopWorld(objs, groups, pools), Range(indexed) \cap Ids)
    /\ UNCHANGED <<running, nq>>

\* The asteroids a query of the index can report to the entity self: the
\* entries that pass `isinstance(asteroid, Asteroid)`.
Near(self) ==
    {a \in (Range(indexed) \cap Ids) \ {self} : objs[a].cls = "Asteroid"}

\* The loop world and the two side lists.
Hits(L, s, a) ==
    [L |-> L, shots_to_remove |-> s, asteroids_to_split |-> a]

\* A collision handler that releases the shot on the spot.
OnHitEager(H, shot, asteroid) ==
    Hits(Back(H.L, "Shot",
              EntityRelease(View(H.L, "Shot"), shot, TRUE, MaxSize)),
         Append(H.shots_to_remove, shot),
         Append(H.asteroids_to_split, asteroid))

\* Lines 125-131: the shot collides with the asteroid: both are appended to
\* their side list.
OnHit(H, shot, asteroid) ==
    Hits(H.L, Append(H.shots_to_remove, shot),
         Append(H.asteroids_to_split, asteroid))

\* Lines 121-131, one round of `for shot in shots`: spatial.query(shot), and
\* the first asteroid of the result that collides with the shot, if any.
main_query_shot ==
    /\ pc = "query_shots"
    /\ it # <<>>
    /\ \E hit \in Near(Head(it)) \cup {NoObj} :
        LET H0 == Hits(LoopWorld(objs, groups, pools), shots_to_remove,
                       asteroids_to_split)
            H == IF hit = NoObj THEN H0 ELSE OnHit(H0, Head(it), hit)
        IN  /\ shots_to_remove' = H.shots_to_remove
            /\ asteroids_to_split' = H.asteroids_to_split
            /\ LoopSettle(H.L, (Range(indexed) \cap Ids) \cup Range(it)
                                   \cup Range(H.shots_to_remove)
                                   \cup Range(H.asteroids_to_split))
    /\ it' = Tail(it)
    /\ nq' = nq + 1
    /\ UNCHANGED <<pc, indexed, running>>

\* Lines 133-145: spatial.query(player); an asteroid of the result that
\* collides with the player ends the game.  Then the loop over
\* shots_to_remove begins.
main_query_player ==
    /\ pc = "query_player"
    /\ \E hit \in Near(PlayerId) \cup {NoObj} :
        running' = (running /\ hit = NoObj)
    /\ nq' = nq + 1
    /\ pc' = "release_shots"
    /\ it' = shots_to_remove
    /\ UNCHANGED <<scanVars, sessionVars, poolVars, gridVars, entityVars, pools, indexed,
                   shots_to_remove, asteroids_to_split>>

\* Lines 147-148, one round: shot.release()
main_release ==
    /\ pc = "release_shots"
    /\ it # <<>>
    /\ LET L == LoopWorld(objs, groups, pools) IN
        LoopSettle(Back(L, "Shot", EntityRelease(View(L, "Shot"), Head(it),
                                                 TRUE, MaxSize)),
                   Referenced)
    /\ it' = Tail(it)
    /\ UNCHANGED <<pc, indexed, shots_to_remove, asteroids_to_split, running,
                   nq>>

\* Lines 149-150, one round: asteroid.split()
main_split ==
    /\ pc = "split_asteroids"
    /\ it # <<>>
    /\ \E theta \in Thetas :
        LET self == Head(it)
            L == LoopWorld(objs, groups, pools)
            e == objs[self]
            refs == Referenced \cup Range(pools["Shot"].pool)
            w == SplitRelease(View(L, "Asteroid"), self, TRUE, MaxSize)
        IN  IF e.radius <= ASTEROID_MIN_RADIUS
            THEN LoopSettle(Back(L, "Asteroid", w), Referenced)
            ELSE \E c1 \in Acquirable(w, refs, TRUE) :
                   LET w1 == SplitChild(w, e, theta, c1, TRUE) IN
                   \E c2 \in Acquirable(w1, refs \cup {c1}, TRUE) :
                     LoopSettle(Back(L, "Asteroid",
                                     SplitChild(w1, e, 0 - theta, c2, TRUE)),
                                Referenced)
    /\ it' = Tail(it)
    /\ UNCHANGED <<pc, indexed, shots_to_remove, asteroids_to_split, running,
                   nq>>

\* Lines 152-166 and the test of `while running`: the frame is drawn; the
\* next iteration begins, or main() leaves the loop.
main_render ==
    /\ pc = "render"
    /\ pc' = IF running THEN "update" ELSE "done"
    /\ UNCHANGED <<scanVars, sessionVars, poolVars, gridVars, entityVars, pools, it, indexed,
                   shots_to_remove, asteroids_to_split, running, nq>>

LoopNext ==
    \/ main_update
    \/ main_clear
    \/ main_insert
    \/ main_loop_end
    \/ main_insert_player
    \/ main_query_shot
    \/ main_query_player
    \/ main_release
    \/ main_split
    \/ main_render

LoopSpec == LoopInit /\ [][LoopNext]_vars

(***************************************************************************)
(* The scan of the player (src/player.py lines 67-119, src/main.py lines   *)
(* 90-108) over pooled asteroids that are spawned and split while the      *)
(* player scans.  A frame is: Player.update, AsteroidField.update, the     *)
(* scan targeting of main(), the splits that the collisions of the frame   *)
(* cause.  Time is counted in frames; distances are not modelled: whether  *)
(* an asteroid is within SCAN_RANGE is an input of each frame.             *)
(***************************************************************************)

\* scan_timer += dt.  A timer that has reached SCAN_TIME_FULL is kept there:
\* the code compares it with SCAN_TIME_QUICK and SCAN_TIME_FULL only.
Tick(t) == IF t >= SCAN_TIME_FULL THEN t ELSE t + 1

\* The player's scan state as one value.
ScanState(timer, target, result, w) ==
    [timer |-> timer, target |-> target, result |-> result, watch |-> w]

\* Player._end_scan
EndScan(st) == [st EXCEPT !.timer = 0, !.target = NoObj, !.watch = 0]

\* Player.set_scan_target
SetScanTarget(st, asteroid) ==
    IF asteroid # st.target
    THEN [st EXCEPT !.target = asteroid, !.timer = 0, !.watch = 0]
    ELSE st

\* The scan state once the instance obj has been released or handed out
\* again: the asteroid the player was scanning in it is no more.
Renewed(st, changed) ==
    IF st.target \in changed THEN [st EXCEPT !.watch = 0] ELSE st

\* The state after a step of the frame that ended in world w and scan state
\* st.
ScanSettle(w, st) ==
    LET refs == {st.target, st.result.asteroid} \ {NoObj}
        h == Members(w.groups) \cup refs
    IN  /\ _pool' = w.pool
        /\ _active' = w.active
        /\ groups' = w.groups
        /\ held' = h
        /\ objs' = Collect(w.objs, w.pool, h)
        /\ scan_timer' = st.timer
        /\ scan_target' = st.target
        /\ last_scan_result' = st.result
        /\ watch' = st.watch
        /\ UNCHANGED <<initial, _max_size, plast, kind, pooled, elast, calls,
                       gridVars, loopVars, sessionVars>>

\* main() before its loop, with the pre-warmed asteroid pool attached; the
\* player scans nothing.
ScanInit ==
    /\ _max_size = MaxSize
    /\ initial = Prewarmed
    /\ _pool = Prewarm(<<>>, _max_size, initial)
    /\ _active = {}
    /\ held = {}
    /\ plast = OpRec("init", <<>>, NoObj, FALSE, <<>>, {}, NoObj)
    /\ GridIdle
    /\ LoopIdle
    /\ kind = "Asteroid"
    /\ pooled = TRUE
    /\ objs = [i \in Ids |->
                IF i \in Range(_pool) THEN Factory("Asteroid") ELSE NoEnt]
    /\ groups = [g \in GroupNames |-> <<>>]
    /\ elast = NoEntityOp
    /\ calls = 0
    /\ sphase = "player"
    /\ keys_e = FALSE
    /\ scan_timer = 0
    /\ scan_target = NoObj
    /\ last_scan_result = NoScanResult
    /\ watch = 0
    /\ SessionIdle

\* Player._update_scan with a target, near enough and alive: the timer
\* advances, and a scan that is complete marks the target and is reported.
UpdateScan(w, st) ==
    LET t == Tick(st.timer)
        e == w.objs[st.target]
        st1 == [st EXCEPT !.timer = t, !.watch = Tick(st.watch)]
    IN  IF t >= SCAN_TIME_FULL /\ ~e.full_scanned
        THEN [w |-> [w EXCEPT !.objs[st.target].full_scanned = TRUE,
                              !.objs[st.target].scanned = TRUE],
              st |-> [st1 EXCEPT !.result = [type |-> "full",
                                             asteroid |-> st.target]]]
        ELSE IF t >= SCAN_TIME_QUICK /\ ~e.scanned
        THEN [w |-> [w EXCEPT !.objs[st.target].scanned = TRUE],
              st |-> [st1 EXCEPT !.result = [type |-> "quick",
                                             asteroid |-> st.target]]]
        ELSE [w |-> w, st |-> st1]

\* Player.update, the scan part (lines 69, 86-108): the last result is
\* forgotten; with the E key down the scan goes on, unless the target is
\* beyond SCAN_RANGE or not alive; with the key up the scan ends.
Player_update ==
    /\ sphase = "player"
    /\ \E e \in BOOLEAN, near \in BOOLEAN :
        LET w == World(objs, groups, _pool, _active)
            st == ScanState(scan_timer, scan_target, NoScanResult, watch)
            r == IF ~e THEN [w |-> w, st |-> EndScan(st)]
                 ELSE IF st.target = NoObj THEN [w |-> w, st |-> st]
                 ELSE IF ~near \/ ~objs[st.target].alive
                 THEN [w |-> w, st |-> EndScan(st)]
                 ELSE UpdateScan(w, st)
        IN  /\ keys_e' = e
            /\ ScanSettle(r.w, r.st)
    /\ sphase' = "field"

\* AsteroidField.update: nothing, or spawn(): Asteroid.acquire with the
\* metadata of a debris object, then asteroid.velocity = velocity.
AsteroidField_update ==
    /\ sphase = "field"
    /\ LET w == World(objs, groups, _pool, _active)
           st == ScanState(scan_timer, scan_target, last_scan_result, watch)
           refs == {scan_target, last_scan_result.asteroid}
       IN  \/ ScanSettle(w, st)
           \/ \E position \in Positions, radius \in AsteroidRadii,
                 meta \in Metas \ {NoMeta} :
                \E obj \in Acquirable(w, refs, TRUE) :
                   /\ Len(groups["asteroids"]) < MaxSpawned
                   /\ LET w1 == Asteroid_acquire(
                                 w, obj, Params(position, radius, meta), TRUE)
                      IN  ScanSettle(
                            [w1 EXCEPT !.objs[obj].velocity = GivenVelocity],
                            Renewed(st, {obj}))
    /\ sphase' = "main"
    /\ UNCHANGED keys_e

\* _find_nearest_asteroid: the live members of `asteroids` (any of them can
\* be the nearest one within range), or None.
Nearest == {a \in Range(groups["asteroids"]) : objs[a].alive} \cup {NoObj}

\* main() lines 90-95: with the E key down, the nearest asteroid in range, if
\* there is one, becomes the scan target.
main_scan ==
    /\ sphase = "main"
    /\ LET w == World(objs, groups, _pool, _active)
           st == ScanState(scan_timer, scan_target, last_scan_result, watch)
       IN  IF keys_e
           THEN \E nearest \in Nearest :
                   ScanSettle(w, IF nearest # NoObj
                                 THEN SetScanTarget(st, nearest) ELSE st)
           ELSE ScanSettle(w, st)
    /\ sphase' = "resolve"
    /\ UNCHANGED keys_e

\* The lists that lines 121-131 can leave in asteroids_to_split: one entry
\* for each shot that hit, the asteroid it hit, a member of `asteroids` (two
\* shots can hit the same asteroid).
SplitLists(g) ==
    UNION {[1..n -> Range(g["asteroids"])] : n \in 0..MaxHits}

\* asteroid.split() of the entry self in the world and scan state s: what
\* it can end in (the angle it draws, the identities of new objects).  The
\* caller refers to the objects refs throughout.
SplitOutcomes(s, self, refs, m) ==
    LET e == s.w.objs[self]
        w == SplitRelease(s.w, self, TRUE, m)
    IN  IF e.radius <= ASTEROID_MIN_RADIUS
        THEN {[w |-> w, st |-> Renewed(s.st, {self})]}
        ELSE UNION {
               UNION {
                 LET w1 == SplitChild(w, e, theta, c1, TRUE) IN
                 {[w |-> SplitChild(w1, e, 0 - theta, c2, TRUE),
                   st |-> Renewed(s.st, {self, c1, c2})] :
                     c2 \in Acquirable(w1, refs \cup {self, c1}, TRUE)} :
                 c1 \in Acquirable(w, refs \cup {self}, TRUE)} :
               theta \in Thetas}

\* for asteroid in asteroids_to_split: asteroid.split()
\* from each of the states S, over the entries still to visit.
RECURSIVE SplitAll(_, _, _, _)
SplitAll(S, entries, refs, m) ==
    IF entries = <<>> THEN S
    ELSE SplitAll(UNION {SplitOutcomes(s, Head(entries), refs, m) : s \in S},
                  Tail(entries), refs, m)

\* main() lines 149-150: every entry of asteroids_to_split is split, in the
\* order of the list.
main_resolve ==
    /\ sphase = "resolve"
    /\ \E entries \in SplitLists(groups) :
         \E s \in SplitAll(
                  {[w |-> World(objs, groups, _pool, _active),
                    st |-> ScanState(scan_timer, scan_target,
                                     last_scan_result, watch)]},
                  entries,
                  {scan_target, last_scan_result.asteroid}
                      \cup Range(entries),
                  _max_size) :
            ScanSettle(s.w, s.st)
    /\ sphase' = "player"
    /\ UNCHANGED keys_e

ScanNext ==
    \/ Player_update
    \/ AsteroidField_update
    \/ main_scan
    \/ main_resolve

ScanSpec == ScanInit /\ [][ScanNext]_vars

(***************************************************************************)
(* The life of a shot (src/shot.py lines 15-66, src/player.py lines        *)
(* 127-133, src/main.py line 88): in a frame, updatable.update(dt) lets the *)
(* player shoot and ages every shot that was in the group; a collision or  *)
(* a caller releases a shot, and update(dt) may be called on a shot the    *)
(* caller still refers to.                                                 *)
(* Time is counted in units of which max_lifetime is MaxLifetime.          *)
(***************************************************************************)

\* position += velocity * dt
RECURSIVE MovedBy(_, _, _)
MovedBy(position, v, dt) ==
    IF dt = 0 THEN position ELSE MovedBy(Moved(position, v), v, dt - 1)

\* A Shot.update that tests `_lifetime > max_lifetime`.
ShotUpdateLate(w, obj, dt) ==
    LET e == w.objs[obj]
        w1 == [w EXCEPT !.objs[obj].position = MovedBy(e.position, e.velocity, dt),
                        !.objs[obj].lifetime = @ + dt]
    IN  IF ~e.alive THEN w
        ELSE IF e.lifetime + dt > MaxLifetime
             THEN EntityRelease(w1, obj, pooled, _max_size)
             ELSE w1

\* Shot.update(dt): a dead shot returns at once; a live one moves and ages,
\* and releases itself when its lifetime has reached max_lifetime.
ShotUpdate(w, obj, dt) ==
    LET e == w.objs[obj]
        w1 == [w EXCEPT !.objs[obj].position = MovedBy(e.position, e.velocity, dt),
                        !.objs[obj].lifetime = @ + dt]
    IN  IF ~e.alive THEN w
        ELSE IF e.lifetime + dt >= MaxLifetime
             THEN EntityRelease(w1, obj, pooled, _max_size)
             ELSE w1

\* Group.update(dt): update(dt) of every sprite that was in the group when
\* the call began.
RECURSIVE UpdateShots(_, _, _)
UpdateShots(w, sprites, dt) ==
    IF sprites = <<>> THEN w
    ELSE UpdateShots(ShotUpdate(w, Head(sprites), dt), Tail(sprites), dt)

\* The classes after main() lines 47-65, the shot pool attached or no pool.
ShotInit ==
    /\ EntityInit
    /\ kind = "Shot"

\* The state after a step of the loop on the shots that ended in world w.
\* The references main() holds are locals of one iteration: after the step
\* the shots of the group and the objects refs are referred to.
ShotSettle(w, refs, rec) ==
    LET h == Members(w.groups) \cup refs IN
    /\ _pool' = w.pool
    /\ _active' = w.active
    /\ groups' = w.groups
    /\ held' = h
    /\ objs' = Collect(w.objs, w.pool, h)
    /\ elast' = rec
    /\ UNCHANGED <<initial, _max_size, plast, kind, pooled, calls, gridVars,
                   loopVars, scanVars, sessionVars>>

\* Player.shoot returning the shot obj: Shot.acquire at the player's
\* position, then shot.velocity = velocity.
Player_shoot(w, obj, position) ==
    LET w1 == Shot_acquire(w, obj, Params(position, SHOT_RADIUS, NoMeta),
                           pooled)
    IN  [w1 EXCEPT !.objs[obj].velocity = GivenVelocity]

\* main() line 88: updatable.update(dt), one frame: update(dt) of every
\* sprite that was in the group when the call began.  The player joined the
\* group before any shot, so Player.update runs first: it shoots when SPACE
\* is down and shoot_timer has run out (`fire`).  Then the shots that were
\* in the group move and age; the shot fired in this frame is not among
\* them.
Group_update ==
    \E dt \in 1..MaxDt, fire \in BOOLEAN, position \in Positions :
        \E sprites \in {groups["updatable"]} :
          \E fired \in (IF fire
                        THEN Acquirable(World(objs, groups, _pool, _active),
                                        held, pooled)
                        ELSE {NoObj}) :
            /\ fire => Len(groups["shots"]) < MaxShots
            /\ \E w \in {UpdateShots(
                             IF fire
                             THEN Player_shoot(
                                      World(objs, groups, _pool, _active),
                                      fired, position)
                             ELSE World(objs, groups, _pool, _active),
                             sprites, dt)} :
                  ShotSettle(w, Range(sprites) \cup ({fired} \ {NoObj}),
                             EntityOp("frame", fired, <<dt>>, sprites, NoEnt,
                                      0))

\* shot.update(dt) called by one who refers to the shot, released or not
\* (main() calls it through the group only).
Shot_update_held ==
    \E obj \in held, dt \in 1..MaxDt :
        ShotSettle(ShotUpdate(World(objs, groups, _pool, _active), obj, dt),
                   {obj},
                   EntityOp("update", obj, <<dt>>, <<>>, objs[obj], 0))

\* shot.release() on a shot the caller refers to (main() line 148).
Shot_release ==
    \E obj \in held :
        ShotSettle(EntityRelease(World(objs, groups, _pool, _active), obj,
                                 pooled, _max_size),
                   {obj},
                   EntityOp("release", obj, <<Len(_pool), obj \in _active>>,
                            <<>>, objs[obj], 0))

ShotNext ==
    \/ Group_update
    \/ Shot_update_held
    \/ Shot_release

\* The game loop calls updatable.update(dt) in every iteration, so a frame
\* that can run does run.
ShotFairSpec == ShotInit /\ [][ShotNext]_vars /\ WF_vars(Group_update)

(***************************************************************************)
(* The session of the game (src/crypto/signing.py lines 51-117) as the     *)
(* loop of main() drives it (src/main.py lines 80-145): the completed scan *)
(* of the frame is scored, every shot that hits an asteroid scores a       *)
(* destroy, and a collision of the player ends the game with a packet.     *)
(* The entities are not modelled here: what the player's update reports,   *)
(* which shots hit and whether the player quits are inputs of each frame.  *)
(***************************************************************************)

\* GameSession.add_score
add_score(s, points) == [s EXCEPT !.score = @ + points]

\* GameSession.record_destroy
record_destroy(s) ==
    [s EXCEPT !.destroys = @ + 1, !.actions = Append(@, <<"destroy">>)]

\* A record_scan that has no branch for "full".
record_scanQuickOnly(s, scan_type) ==
    [s EXCEPT !.scans_quick = IF scan_type = "quick" THEN @ + 1 ELSE @,
              !.actions = Append(@, <<"scan", scan_type>>)]

\* GameSession.record_scan
record_scan(s, scan_type) ==
    [s EXCEPT !.scans_quick = IF scan_type = "quick" THEN @ + 1 ELSE @,
              !.scans_full = IF scan_type = "quick" THEN @
                             ELSE IF scan_type = "full" THEN @ + 1 ELSE @,
              !.actions = Append(@, <<"scan", scan_type>>)]

\* GameSession.record_death
record_death(s) == [s EXCEPT !.actions = Append(@, <<"death">>)]

\* GameSession.create_packet: the score and the counters of the session.
create_packet(s) ==
    [made |-> TRUE, score |-> s.score, scans_quick |-> s.scans_quick,
     scans_full |-> s.scans_full, destroys |-> s.destroys]

\* validate_action_counts
validate_action_counts(p) ==
    p.score = p.destroys * DESTROY_POINTS
                + p.scans_quick * SCAN_POINTS_QUICK
                + p.scans_full * SCAN_POINTS_FULL

\* The scoring actions the session has recorded.
Scored(s) == s.destroys + s.scans_quick + s.scans_full

\* What Player.update leaves in last_scan_result: None, or the type of the
\* scan it completed and its target.
ScanResults ==
    {NoScanResult} \cup
    {[type |-> t, asteroid |-> a] : t \in {"quick", "full"}, a \in Ids}

\* main() before its loop: a new session, no packet.
SessionInit ==
    /\ PoolIdle
    /\ GridIdle
    /\ EntityIdle
    /\ pools = [k \in Classes |-> EmptyPool]
    /\ indexed = <<>>
    /\ shots_to_remove = <<>>
    /\ asteroids_to_split = <<>>
    /\ nq = 0
    /\ sphase = "idle"
    /\ keys_e = FALSE
    /\ scan_timer = 0
    /\ scan_target = NoObj
    /\ watch = 0
    /\ last_scan_result = NoScanResult
    /\ pc = "update"
    /\ it = <<>>
    /\ running = TRUE
    /\ session = NewSession
    /\ packet = NoPacket

\* What a step of the session leaves alone.
SessionFrame ==
    UNCHANGED <<poolVars, gridVars, entityVars, pools, indexed,
                shots_to_remove, asteroids_to_split, nq, sphase, keys_e,
                scan_timer, scan_target, watch>>

\* Lines 80-88: a QUIT event or the ESCAPE key sets running to False, and
\* the frame goes on; updatable.update(dt): Player.update leaves the result
\* of the frame's scan, if one was completed.
main_frame ==
    /\ pc = "update"
    /\ \E quit \in BOOLEAN : running' = (running /\ ~quit)
    /\ last_scan_result' \in ScanResults
    /\ last_scan_result' # NoScanResult => Scored(session) < MaxActions
    /\ pc' = "scan_completion"
    /\ SessionFrame
    /\ UNCHANGED <<it, session, packet>>

\* Lines 97-108: the completed scan is scored and recorded.  Then the loop
\* over the shots of the frame begins (line 121).
main_scan_completion ==
    /\ pc = "scan_completion"
    /\ session' =
         IF last_scan_result = NoScanResult THEN session
         ELSE IF last_scan_result.type = "full"
         THEN record_scan(add_score(session, SCAN_POINTS_FULL), "full")
         ELSE IF last_scan_result.type = "quick"
         THEN record_scan(add_score(session, SCAN_POINTS_QUICK), "quick")
         ELSE session
    /\ \E n \in 0..MaxShots : it' = [i \in 1..n |-> i]
    /\ pc' = "query_shots"
    /\ SessionFrame
    /\ UNCHANGED <<last_scan_result, running, packet>>

\* Lines 121-131, one round of `for shot in shots`: a shot that collides
\* with an asteroid scores a destroy.
main_shot_hit ==
    /\ pc = "query_shots"
    /\ it # <<>>
    /\ \E hit \in BOOLEAN :
        /\ hit => Scored(session) < MaxActions
        /\ session' = IF hit
                      THEN record_destroy(add_score(session, DESTROY_POINTS))
                      ELSE session
    /\ it' = Tail(it)
    /\ SessionFrame
    /\ UNCHANGED <<pc, last_scan_result, running, packet>>

\* Lines 133-145: an asteroid that collides with the player ends the game:
\* the death is recorded and the packet is created.
main_player_hit ==
    /\ pc = "query_shots"
    /\ it = <<>>
    /\ \E hit \in BOOLEAN :
        IF hit
        THEN /\ session' = record_death(session)
             /\ packet' = create_packet(session')
             /\ running' = FALSE
        ELSE UNCHANGED <<session, packet, running>>
    /\ pc' = "render"
    /\ SessionFrame
    /\ UNCHANGED <<it, last_scan_result>>

\* Lines 147-166 and the test of `while running`.
main_frame_end ==
    /\ pc = "render"
    /\ pc' = IF running THEN "update" ELSE "done"
    /\ SessionFrame
    /\ UNCHANGED <<it, last_scan_result, running, session, packet>>

SessionNext ==
    \/ main_frame
    \/ main_scan_completion
    \/ main_shot_hit
    \/ main_player_hit
    \/ main_frame_end

SessionSpec == SessionInit /\ [][SessionNext]_vars

\* ActionLog.clear on session.actions.  No statement of main() calls it; the
\* crypto package exports ActionLog, so a client holding the session may.
ActionLog_clear ==
    /\ session' = [session EXCEPT !.actions = <<>>]
    /\ SessionFrame
    /\ UNCHANGED <<pc, it, last_scan_result, running, packet>>

\* The session driven by main() while a client clears the action log.
SessionClientSpec == SessionInit /\ [][SessionNext \/ ActionLog_clear]_vars

(***************************************************************************)
(* Properties of the pool.                                                 *)
(***************************************************************************)
\* The counters of the state the last pool operation started from.
pre_available == Len(plast.pre_pool)
pre_active == Cardinality(plast.pre_active)
pre_total == pre_available + pre_active

\* A pool was constructed with arguments the specification accepts.
ValidConfig == _max_size > 0 /\ initial <= _max_size

\* The number of times obj occurs in the sequence s.
Count(s, obj) == Cardinality({i \in 1..Len(s) : s[i] = obj})

\* C2 (as claimed): pool conservation. After every acquire, release or
\* release_all on a pool, total = available + active, and total is at least
\* what it was before the call (total never decreases).
C2_TotalNeverDecreases ==
    /\ total = available + active
    /\ (ValidConfig /\ plast.op # "init") => total >= pre_total

\* C3: pool partition. No instance is both tracked as active and present in
\* the available collection, and no instance is present in the available
\* collection more than once, whatever is released and however often.
C3_Partition ==
    /\ Range(_pool) \cap _active = {}
    /\ \A obj \in Ids : Count(_pool, obj) <= 1

\* C3 witness: one release_all released the same active instance twice while
\* the available collection had room for two more instances.
C3_Witness ==
    /\ plast.op = "release_all"
    /\ Len(plast.objs) = 2
    /\ plast.objs[1] = plast.objs[2]
    /\ plast.objs[1] \in plast.pre_active
    /\ pre_available + 2 <= _max_size

\* C4: double-release safety. release(x) of an instance that is not tracked
\* as active (already released, or never acquired from this pool) leaves the
\* active set and the available collection as they were; and releasing the
\* same instance twice in one batch leaves the pool as releasing it once.
C4_DoubleReleaseSafe ==
    /\ (plast.op = "release" /\ plast.objs[1] \notin plast.pre_active)
          => (_pool = plast.pre_pool /\ _active = plast.pre_active)
    /\ (plast.op = "release_all" /\ Len(plast.objs) = 2
           /\ plast.objs[1] = plast.objs[2])
          => /\ _active = plast.pre_active \ {plast.objs[1]}
             /\ _pool = IF plast.objs[1] \in plast.pre_active
                           /\ pre_available < _max_size
                        THEN Append(plast.pre_pool, plast.objs[1])
                        ELSE plast.pre_pool

\* C4 witness: release(x) was called on an instance that had already been
\* released (it sits in the available collection), with room left in the pool.
C4_Witness ==
    /\ plast.op = "release"
    /\ plast.objs[1] \notin plast.pre_active
    /\ plast.objs[1] \in Range(plast.pre_pool)
    /\ pre_available < _max_size

\* C5: pool reuse. When an active instance x was released while
\* available < max_size and the next pool operation is acquire(), that
\* acquire returns x itself and does not invoke the factory.
C5_Reuse ==
    (plast.op = "acquire" /\ plast.recycled # NoObj)
        => (plast.ret = plast.recycled /\ ~plast.made)

\* C5 witness: such an acquire happened while another instance was also
\* available, so the pool had a choice.
C5_Witness ==
    /\ plast.op = "acquire"
    /\ plast.recycled # NoObj
    /\ pre_available >= 2
    /\ plast.ret = plast.recycled

\* C6 (as claimed): overflow instances are not pool-tracked. An acquire() on a
\* pool whose available collection is empty and whose active count equals
\* max_size leaves pool.active unchanged.
C6_OverflowNotTracked ==
    (ValidConfig /\ plast.op = "acquire" /\ plast.pre_pool = <<>>
        /\ pre_active = _max_size)
        => active = pre_active

\* C7 (as claimed): pool size bound. For a pool constructed with
\* initial <= max_size, total = available + active never exceeds max_size.
C7_TotalBounded ==
    ValidConfig => total <= _max_size

(***************************************************************************)
(* Properties of the spatial index.                                        *)
(***************************************************************************)
\* The entity was inserted since the last clear().
Inserted(name) == name \in DOMAIN _entity_cells

\* distance(a, b) <= a.radius + b.radius, on the squares.
Touching(a, b) ==
    (a.x - b.x) * (a.x - b.x) + (a.y - b.y) * (a.y - b.y)
        <= (a.radius + b.radius) * (a.radius + b.radius)

\* cell_size >= 2 * the largest radius among the inserted entities.
CellSizePrecondition ==
    \A name \in DOMAIN _entity_cells : cell_size >= 2 * ents[name].radius

\* The cells the bounding square of e overlaps.
Overlapped(e) ==
    {<<cx, cy>> :
        cx \in ((e.x - e.radius) \div cell_size)..((e.x + e.radius) \div cell_size),
        cy \in ((e.y - e.radius) \div cell_size)..((e.y + e.radius) \div cell_size)}

\* The cells whose list holds the entity.
CellsHolding(name) == {c \in DOMAIN _grid : name \in Range(_grid[c])}

Abs(n) == IF n < 0 THEN -n ELSE n

\* The kinds of lookups.
Lookups == {"query", "query_point", "query_rect"}

\* The generator at hand is one of a lookup of kind k and was consumed to the
\* end, the index having been left alone from its first next() to its last
\* (q.result is then all it yielded).
Consumed(k) == q.kind = k /\ q.state = "done" /\ ~q.changed

Adjacent(c, d) == Abs(c[1] - d[1]) <= 1 /\ Abs(c[2] - d[2]) <= 1

\* C1: no false negatives. When A and B were both inserted since the last
\* clear(), distance(A, B) <= A.radius + B.radius and cell_size is at least
\* twice the largest radius, query(A) yields B (and, A and B being any two
\* entities, query(B) yields A).
C1_NoFalseNegatives ==
    Consumed("query") =>
        \A B \in DOMAIN ents \ {q.args[1]} :
            (/\ Inserted(q.args[1])
             /\ Inserted(B)
             /\ CellSizePrecondition
             /\ Touching(ents[q.args[1]], ents[B]))
                => B \in Range(q.result)

\* C1 witness: query(A) found a touching entity B whose primary cell is not
\* the primary cell of A, A lying at a negative coordinate.
C1_Witness ==
    /\ Consumed("query")
    /\ cell_size = 2
    /\ CellSizePrecondition
    /\ \E B \in DOMAIN ents \ {q.args[1]} :
          /\ Inserted(q.args[1])
          /\ Inserted(B)
          /\ Touching(ents[q.args[1]], ents[B])
          /\ _entity_cells[q.args[1]] # _entity_cells[B]
          /\ ents[q.args[1]].x < 0
          /\ ents[B].radius = 1
          /\ B \in Range(q.result)

\* C8: self-exclusion. query(E) never yields E, whether E was inserted once,
\* several times or not at all (and whatever is done to the index while the
\* generator is suspended).
C8_SelfExclusion ==
    q.kind = "query" => q.args[1] \notin Range(q.result)

\* C8 witness: query(E) on an entity that was inserted twice, and that
\* yielded another entity.
C8_Witness ==
    /\ Consumed("query")
    /\ q.result # <<>>
    /\ \E c \in DOMAIN _grid : Count(_grid[c], q.args[1]) >= 2

\* C9: clear forgets everything. After a clear() that followed inserts, and
\* before the next insert, query, query_point and query_rect yield nothing
\* and entity_count = 0 and cell_count = 0.  (A generator that was suspended
\* when clear() ran is a lookup of the index as it was before: it goes on
\* over the list it holds.)
C9_ClearForgets ==
    wiped => /\ entity_count = 0
             /\ cell_count = 0
             /\ \A k \in Lookups : Consumed(k) => q.result = <<>>

\* C9 witness: after inserts and a clear(), query_point was called at the
\* origin, where both entities lie.
C9_Witness ==
    /\ wiped
    /\ Consumed("query_point")
    /\ q.args = <<0, 0>>
    /\ ents["A"].x = 0 /\ ents["A"].y = 0

\* C10: far entities are excluded. query(A) yields B only if B is held by a
\* cell that differs by at most 1 on each axis from a cell overlapped by the
\* bounding square of A.  In the scenario (cell_size 128; A at (0,0), B at
\* (30,0), C at (1000,1000), all of radius 20) query(A) and query(B) never
\* yield C, and A and B yield each other once both are inserted.
C10_FarExcluded ==
    Consumed("query") =>
        /\ \A B \in Range(q.result) :
              \E c \in CellsHolding(B), a \in Overlapped(ents[q.args[1]]) :
                  Adjacent(c, a)
        /\ (cell_size = 128 /\ q.args[1] \in {"A", "B"}) =>
              /\ "C" \notin Range(q.result)
              /\ (Inserted("A") /\ Inserted("B")) =>
                    Range(q.result) = {"A", "B"} \ {q.args[1]}

\* C10 witness: in the scenario all three entities are inserted and query(A)
\* yields exactly B.
C10_Witness ==
    /\ cell_size = 128
    /\ Consumed("query")
    /\ q.args = <<"A">>
    /\ Inserted("A") /\ Inserted("B") /\ Inserted("C")
    /\ q.result = <<"B">>

(***************************************************************************)
(* Properties of the entities.                                             *)
(***************************************************************************)
\* The entity is a member of no group.
Detached(obj) == \A g \in GroupNames : obj \notin Range(groups[g])

\* The entity is a member of every container of its class.
Registered(obj) == \A g \in Containers(kind) : obj \in Range(groups[g])

\* v rotated by angle degrees and scaled by 1.2.
RotatedScaled(v, angle) ==
    IF v.vx = 0 /\ v.vy = 0 THEN v
    ELSE [vx |-> v.vx, vy |-> v.vy, rot |-> (v.rot + angle + 360) % 360,
          gain |-> v.gain + 1]

\* C11: split conservation. split() on an asteroid of radius R above
\* ASTEROID_MIN_RADIUS returns exactly two offspring (two objects), each live,
\* registered, at the parent's position, of radius R - ASTEROID_MIN_RADIUS,
\* with the parent's velocity rotated by +theta and by -theta for one theta
\* in [20, 50] and scaled by 1.2; split() on an asteroid of radius at most
\* ASTEROID_MIN_RADIUS returns the empty list and leaves the asteroid dead,
\* detached and not active, with or without a pool.
C11_SplitConservation ==
    elast.op = "split" =>
        IF elast.pre.radius > ASTEROID_MIN_RADIUS
        THEN /\ Len(elast.ret) = 2
             /\ elast.ret[1] # elast.ret[2]
             /\ elast.theta >= 20 /\ elast.theta <= 50
             /\ \A i \in 1..2 :
                   /\ objs[elast.ret[i]].radius
                         = elast.pre.radius - ASTEROID_MIN_RADIUS
                   /\ objs[elast.ret[i]].position = elast.pre.position
                   /\ objs[elast.ret[i]].alive
                   /\ Registered(elast.ret[i])
             /\ objs[elast.ret[1]].velocity
                   = RotatedScaled(elast.pre.velocity, elast.theta)
             /\ objs[elast.ret[2]].velocity
                   = RotatedScaled(elast.pre.velocity, 0 - elast.theta)
        ELSE /\ elast.ret = <<>>
             /\ ~objs[elast.self].alive
             /\ Detached(elast.self)
             /\ elast.self \notin _active

\* C11 witness: a pooled, moving asteroid of radius 2 * ASTEROID_MIN_RADIUS
\* was split and the first offspring is the parent's own instance, recycled.
C11_Witness ==
    /\ elast.op = "split"
    /\ pooled
    /\ elast.pre.radius = 2 * ASTEROID_MIN_RADIUS
    /\ elast.pre.alive
    /\ elast.pre.velocity.vx # 0
    /\ Len(elast.ret) = 2
    /\ elast.ret[1] = elast.self
    /\ objs[elast.ret[2]].velocity.rot = 360 - elast.theta

\* C11 second case: an asteroid of radius ASTEROID_MIN_RADIUS was split, with
\* a pool and without one.
C11_SmallSplit ==
    /\ elast.op = "split"
    /\ elast.pre.alive
    /\ elast.pre.radius = ASTEROID_MIN_RADIUS
    /\ elast.ret = <<>>

\* C12 (as claimed): metadata propagation on split. When split() returns two
\* offspring, both carry the debris_data and the norad_id the parent had
\* before the split.
C12_MetadataPropagated ==
    (elast.op = "split" /\ Len(elast.ret) = 2) =>
        \A i \in 1..2 :
            /\ objs[elast.ret[i]].debris_data = elast.pre.debris_data
            /\ objs[elast.ret[i]].norad_id = elast.pre.norad_id

\* C13: no stale state after acquire. With a pool configured, the entity
\* returned by Asteroid.acquire(x, y, radius, metadata) or Shot.acquire(x, y)
\* has position (x, y), velocity zero, the radius and metadata of the call
\* (metadata None when not given; a Shot the radius SHOT_RADIUS), is alive,
\* has its scan flags and its lifetime cleared, is a member of every container
\* of its class and is counted active, whatever the instance held before.
C13_NoStaleState ==
    (elast.op = "acquire" /\ pooled) =>
        LET obj == elast.ret[1]
            e == objs[obj]
        IN  /\ e.position = elast.args.position
            /\ e.velocity = [vx |-> 0, vy |-> 0, rot |-> 0, gain |-> 0]
            /\ e.radius = elast.args.radius
            /\ e.alive
            /\ Registered(obj)
            /\ obj \in _active
            /\ obj \notin Range(_pool)
            /\ IF kind = "Asteroid"
               THEN /\ e.cls = "Asteroid"
                    /\ ~e.scanned /\ ~e.full_scanned
                    /\ e.debris_data = elast.args.meta.debris_data
                    /\ e.norad_id = elast.args.meta.norad_id
               ELSE /\ e.cls = "Shot"
                    /\ e.lifetime = 0

\* C13 witness: Asteroid.acquire without metadata returned a recycled instance
\* that was left dead, moving, fully scanned, with metadata and with another
\* radius and position than the call gives.
C13_Witness ==
    /\ elast.op = "acquire"
    /\ pooled
    /\ kind = "Asteroid"
    /\ elast.pre.cls = "Asteroid"
    /\ ~elast.pre.alive
    /\ elast.pre.velocity.vx # 0
    /\ elast.pre.full_scanned
    /\ elast.pre.norad_id # None
    /\ elast.args.meta = NoMeta
    /\ elast.pre.radius # elast.args.radius

\* C13 second case: Shot.acquire returned a recycled shot that had aged and
\* moved.
C13_StaleShot ==
    /\ elast.op = "acquire"
    /\ pooled
    /\ kind = "Shot"
    /\ elast.pre.cls = "Shot"
    /\ elast.pre.lifetime > 0
    /\ elast.pre.position # elast.args.position
    /\ elast.pre.velocity.vx # 0

\* After release() on a live entity of a pooled class the entity is dead,
\* detached from every group, not counted active, and in the available
\* collection when that held fewer than max_size instances before the call.
ReleasedProperly ==
    (elast.op = "release" /\ pooled /\ elast.pre.alive) =>
        /\ ~objs[elast.self].alive
        /\ Detached(elast.self)
        /\ elast.self \notin _active
        /\ elast.args[1] < _max_size => elast.self \in Range(_pool)

\* A release() that follows a release() of the same entity.
SecondRelease ==
    /\ elast.op = "release"
    /\ elast'.op = "release"
    /\ elast'.self = elast.self

\* C14: lifecycle release. After entity.release() on a live pooled Asteroid or
\* Shot the entity is dead, a member of no tracking collection, not counted
\* active by its pool and, if available < max_size, in the pool's available
\* collection; a second release() of it changes neither the entities, nor the
\* groups, nor the pool.
C14_LifecycleRelease ==
    /\ []ReleasedProperly
    /\ [][SecondRelease =>
            /\ objs' = objs
            /\ groups' = groups
            /\ _pool' = _pool
            /\ _active' = _active]_vars

\* C14 witness: release() was called twice in a row on a pooled entity that
\* was live before the first call; the pool had room and took it back once.
C14_Witness ==
    /\ elast.op = "release"
    /\ pooled
    /\ ~elast.pre.alive
    /\ elast.args[2] = FALSE
    /\ elast.self \in Range(_pool)
    /\ Len(_pool) < _max_size
    /\ Detached(elast.self)

\* C14 first case: release() of a live pooled entity that the pool took back,
\* and of one that a full pool dropped.
C14_Released ==
    /\ elast.op = "release"
    /\ pooled
    /\ elast.pre.alive
    /\ elast.args[1] < _max_size

\* What acquire() with the same parameters returns under the other
\* configuration: without a pool a newly constructed entity, with a pool an
\* instance of the factory after reset().
OtherConfiguration(p) ==
    IF pooled
    THEN IF kind = "Asteroid" THEN NewAsteroid(p.position, p.radius)
         ELSE NewShot(p.position)
    ELSE IF kind = "Asteroid"
         THEN Asteroid_reset(Factory("Asteroid"), p.position, p.radius, p.meta)
         ELSE Shot_reset(Factory("Shot"), p.position)

\* C15 (as claimed): pooling is only an optimization. The entity returned by
\* Asteroid.acquire or Shot.acquire has the same observable state (position,
\* radius, velocity, alive flag, scan flags, norad_id, debris_data, lifetime)
\* as the entity the same call returns when the pool is configured the other
\* way (with a pool instead of without, and the reverse).
C15_PoolingTransparent ==
    elast.op = "acquire" =>
        objs[elast.ret[1]] = OtherConfiguration(elast.args)

\* C16 (as claimed): pool configuration errors are rejected at construction.
\* No operation runs on a pool that was constructed with max_size <= 0 or
\* with initial > max_size: such a pool does not come to exist.
C16_ConfigRejected ==
    plast.op # "init" => (_max_size > 0 /\ initial <= _max_size)

\* C17 (as claimed): index configuration errors are rejected at
\* construction. No insert() has stored an entity and no generator of a
\* query has run on an index whose cell_size is not positive: such an index
\* does not come to exist.
C17_CellSizeRejected ==
    (n_ins > 0 \/ (q.kind = "query" /\ q.state \in {"suspended", "done"}))
        => cell_size > 0

\* The cells from the cell of (x1, y1) to the cell of (x2, y2).
Covered(x1, y1, x2, y2) ==
    {<<cx, cy>> :
        cx \in (x1 \div cell_size)..(x2 \div cell_size),
        cy \in (y1 \div cell_size)..(y2 \div cell_size)}

\* The entities held by one of the cells, or by a neighbour of one.
StoredIn(cells) == {name \in DOMAIN ents : CellsHolding(name) \cap cells # {}}
StoredNear(cells) ==
    {name \in DOMAIN ents :
        \E c \in CellsHolding(name), d \in cells : Adjacent(c, d)}

\* The result names no entity twice.
EachOnce(result) == Cardinality(Range(result)) = Len(result)

\* query_point(x, y) yields every entity stored in the cell of (x, y) or one
\* of its 8 neighbours, each once.
PointExpansion ==
    Consumed("query_point") =>
        /\ Range(q.result)
              = StoredNear(Covered(q.args[1], q.args[2], q.args[1], q.args[2]))
        /\ EachOnce(q.result)

\* C18 (as claimed): query_point and query_rect use the same neighbour
\* expansion as query. query_point(x, y) yields every entity stored in the
\* cell of (x, y) or one of its 8 neighbours, and query_rect(x1, y1, x2, y2)
\* yields every entity stored in a cell covered by the box or in one of the 8
\* neighbours of such a cell, each entity once.
C18_SameExpansion ==
    /\ PointExpansion
    /\ Consumed("query_rect") =>
          /\ Range(q.result)
                = StoredNear(Covered(q.args[1], q.args[2], q.args[3], q.args[4]))
          /\ EachOnce(q.result)

\* C18 (amended): query_point(x, y) yields every entity stored in the cell of
\* (x, y) or one of its 8 neighbours, each once; query_rect(x1, y1, x2, y2)
\* yields every entity stored in a cell from the cell of (x1, y1) to the cell
\* of (x2, y2), each once, and no entity that only a neighbour of those cells
\* holds.
C18_PointExpandsRectDoesNot ==
    /\ PointExpansion
    /\ Consumed("query_rect") =>
          /\ Range(q.result)
                = StoredIn(Covered(q.args[1], q.args[2], q.args[3], q.args[4]))
          /\ EachOnce(q.result)

\* C18 witness: query_rect over the cell of B yielded B alone while A was
\* stored in a neighbour of that cell only.
C18_Witness ==
    /\ Consumed("query_rect")
    /\ q.result = <<"B">>
    /\ Inserted("A") /\ Inserted("B")
    /\ "A" \in StoredNear(Covered(q.args[1], q.args[2], q.args[3], q.args[4]))
    /\ "A" \notin StoredIn(Covered(q.args[1], q.args[2], q.args[3], q.args[4]))

\* C18 second case: query_point yielded A, stored in a neighbour of the cell
\* of the point only, and B.
C18_PointNeighbour ==
    /\ Consumed("query_point")
    /\ Range(q.result) = {"A", "B"}
    /\ "A" \notin StoredIn(Covered(q.args[1], q.args[2], q.args[1], q.args[2]))


(***************************************************************************)
(* Properties of the game loop.                                            *)
(***************************************************************************)

\* The statements that query the index.
QueryPhases == {"query_shots", "query_player"}

\* The live entities of a class: the members of its group.
LiveIn(g) == {obj \in Range(groups[g]) : objs[obj].alive}

\* The index holds the live asteroids, the live shots and the player, each
\* once and nothing else, and no group holds a dead entity.
IndexCurrent ==
    /\ Range(indexed) = LiveIn("asteroids") \cup LiveIn("shots") \cup {PlayerId}
    /\ Len(indexed) = Cardinality(Range(indexed))
    /\ \A obj \in Members(groups) : objs[obj].alive

\* C19: step ordering.  Whenever a query of the iteration is about to run or
\* has run and the player query is still to come, the index holds exactly
\* what clear() and the inserts of this iteration put there: every live
\* asteroid, every live shot and the player, each once.  Queries are issued
\* in the query statements only, and no step taken from a query statement
\* changes the index.
C19_StepOrdering ==
    /\ [](pc \in QueryPhases => IndexCurrent)
    /\ [][(pc \in QueryPhases \/ nq' > nq)
            => (pc \in QueryPhases /\ indexed' = indexed)]_vars

\* In an iteration after the first, which follows the release of some entity,
\* a shot has been queried and the player query is next; an asteroid, a shot
\* and the player are in the index.
C19_Witness ==
    /\ pc = "query_player"
    /\ nq >= 1
    /\ pools["Shot"].pool # <<>>
    /\ LiveIn("asteroids") # {}
    /\ LiveIn("shots") # {}
    /\ PlayerId \in Range(indexed)

\* The entities the queries of the running iteration marked.
Marked == Range(shots_to_remove) \cup Range(asteroids_to_split)

\* C20: deferred mutation.  While the queries over the shots and the player
\* run, every shot and asteroid already put on a side list is still alive
\* and in its groups, and no step taken from a query statement changes an
\* entity, a group or a pool; the groups and pools change in update(), in
\* the release loop and in the split loop only.
C20_DeferredMutation ==
    /\ [](pc \in QueryPhases =>
            \A obj \in Marked : objs[obj].alive /\ obj \in Range(groups["updatable"]))
    /\ [][(pc \in QueryPhases)
            => (objs' = objs /\ groups' = groups /\ pools' = pools)]_vars
    /\ [][(groups' # groups \/ pools' # pools)
            => pc \in {"update", "release_shots", "split_asteroids"}]_vars

\* A shot has hit an asteroid, and a query of the iteration is still to come.
C20_Witness ==
    /\ pc \in QueryPhases
    /\ nq >= 1
    /\ shots_to_remove # <<>>
    /\ asteroids_to_split # <<>>

\* The deferred work is under way: the queries are over, the shot that hit
\* is released and the asteroid it hit waits for its split.
C20_Deferred ==
    /\ pc = "split_asteroids"
    /\ it # <<>>
    /\ shots_to_remove # <<>>
    /\ ~objs[shots_to_remove[1]].alive
    /\ objs[Head(it)].alive

\* C21: two simultaneous hits destroy once.  The split loop of main() calls
\* split() once per listing (lines 149-150), so an asteroid listed twice has
\* split() called on it twice in a row.  With the pool attached, the second
\* call is a no-op: it changes no entity, no group and not the pool, so the
\* offspring and the active/available counts are those of a single listing.
C21_SecondSplitNoOp ==
    [][(pooled /\ elast.op = "split" /\ elast'.op = "split"
            /\ elast'.self = elast.self)
         => (objs' = objs /\ groups' = groups /\ _pool' = _pool
                /\ _active' = _active)]_vars

\* C22: split reads pre-release state.  Both offspring of split() are at the
\* position the parent had when split() was called and have that parent's
\* velocity, rotated by +theta / -theta and scaled, whichever instances the
\* pool hands out, the parent's own instance included.
C22_PreReleaseState ==
    (elast.op = "split" /\ elast.ret # <<>>) =>
        \A i \in 1..Len(elast.ret) :
            /\ objs[elast.ret[i]].position = elast.pre.position
            /\ objs[elast.ret[i]].velocity
                  = RotatedScaled(elast.pre.velocity,
                                  IF i = 1 THEN elast.theta
                                  ELSE 0 - elast.theta)

\* C22 witness: the pool handed the parent's own instance back as the first
\* offspring; the parent was moving, and the instance no longer holds the
\* parent's velocity.
C22_Witness ==
    /\ elast.op = "split"
    /\ pooled
    /\ Len(elast.ret) = 2
    /\ elast.ret[1] = elast.self
    /\ ~IsZero(elast.pre.velocity)
    /\ objs[elast.self].velocity # elast.pre.velocity
    /\ objs[elast.ret[2]].velocity # objs[elast.ret[1]].velocity

\* The last pool operation was an acquire() that constructed an overflow
\* instance: the available collection was empty and max_size instances were
\* checked out already.
OverflowAcquire ==
    /\ plast.op = "acquire"
    /\ plast.made
    /\ pre_active >= _max_size

\* C23 (as claimed): release of an overflow instance is a plain destroy.
\* When the operation after an overflow acquire() is the release() of the
\* instance it returned, that release does not place the instance into the
\* available collection.
C23_OverflowDestroyed ==
    [][(ValidConfig /\ OverflowAcquire /\ plast'.op = "release"
            /\ plast'.objs[1] = plast.ret)
         => plast.ret \notin Range(_pool')]_vars

\* C24: acquire() always returns an instance and marks it active.  From a
\* non-empty available collection it removes exactly one instance, the one
\* it returns, and the factory does not run (available decreases by 1); from
\* an empty one the factory runs once and available stays 0.  In both cases
\* the returned instance is tracked as active afterwards, and no other
\* instance changes its tracking.
C24_AcquireMarksActive ==
    plast.op = "acquire" =>
        /\ plast.ret \in Ids
        /\ _active = plast.pre_active \cup {plast.ret}
        /\ IF plast.pre_pool # <<>>
           THEN /\ ~plast.made
                /\ available = pre_available - 1
                /\ plast.ret \in Range(plast.pre_pool)
                /\ plast.ret \notin Range(_pool)
           ELSE /\ plast.made
                /\ available = 0
                /\ _pool = plast.pre_pool

\* C24 witness: acquire() took one of two available instances while another
\* instance was checked out.
C24_Witness ==
    /\ plast.op = "acquire"
    /\ pre_available = 2
    /\ pre_active = 1
    /\ available = 1
    /\ active = 2

\* C24 second case: acquire() ran the factory on an empty pool that had
\* handed out an instance before.
C24_Factory ==
    /\ plast.op = "acquire"
    /\ plast.made
    /\ pre_active = 1
    /\ active = 2
    /\ available = 0

\* floor(a / b) for b > 0: the integer k with k * b <= a < (k + 1) * b.
Floor(a, b) ==
    LET m == IF a < 0 THEN 0 - a ELSE a
    IN  CHOOSE k \in (0 - m - 1)..(m + 1) : k * b <= a /\ a < (k + 1) * b

\* The cells (cx, cy) the bounding square of e overlaps.
Box(e) ==
    (Floor(e.x - e.radius, cell_size)..Floor(e.x + e.radius, cell_size))
        \X (Floor(e.y - e.radius, cell_size)..Floor(e.y + e.radius, cell_size))

\* The step is insert(name).
InsertOf(name) ==
    /\ n_ins' = n_ins + 1
    /\ name \in DOMAIN _entity_cells'
    /\ \E c \in DOMAIN _grid' :
          /\ Len(_grid'[c]) = Len(GridGet(_grid, c)) + 1
          /\ _grid'[c][Len(_grid'[c])] = name

\* C25: insert(entity) appends the entity to the sequence of every cell of
\* its box, floor((x-r)/cell_size)..floor((x+r)/cell_size) by
\* floor((y-r)/cell_size)..floor((y+r)/cell_size), and to no other cell; it
\* leaves every other cell, and the primary cell of every other entity, as
\* they were; the primary cell it records is the minimum cell of the box.
C25_InsertCells ==
    [][\A name \in DOMAIN ents : InsertOf(name) =>
          /\ DOMAIN _grid' = DOMAIN _grid \cup Box(ents[name])
          /\ \A c \in DOMAIN _grid' :
                _grid'[c] = IF c \in Box(ents[name])
                            THEN Append(GridGet(_grid, c), name)
                            ELSE _grid[c]
          /\ DOMAIN _entity_cells' = DOMAIN _entity_cells \cup {name}
          /\ _entity_cells'[name]
                = <<Floor(ents[name].x - ents[name].radius, cell_size),
                    Floor(ents[name].y - ents[name].radius, cell_size)>>
          /\ \A k \in DOMAIN _entity_cells \ {name} :
                _entity_cells'[k] = _entity_cells[k]]_vars

\* C25 witness: B was inserted after A; B overlaps nine cells, one of which
\* held A already, and A is also in a cell that B does not reach.
C25_Witness ==
    /\ n_ins = 2
    /\ DOMAIN _entity_cells = {"A", "B"}
    /\ Cardinality(Box(ents["B"])) = 9
    /\ \A c \in Box(ents["B"]) : c \in DOMAIN _grid
    /\ \E c \in DOMAIN _grid : _grid[c] = <<"A", "B">>
    /\ \E c \in DOMAIN _grid : _grid[c] = <<"A">>

\* C26: query results are distinct.  One call of query(E) yields each entity
\* at most once, however many of the scanned cells hold it and however often
\* it was inserted since the last clear() (and whatever is done to the index
\* while the generator is suspended).
C26_QueryDistinct ==
    q.kind = "query" => EachOnce(q.result)

\* C26 witness: query(E) yielded one entity that was inserted twice and
\* overlaps nine cells, E itself overlapping several cells whose 3x3 blocks
\* overlap.
C26_Witness ==
    /\ Consumed("query")
    /\ Len(q.result) = 1
    /\ Cardinality(Box(ents[q.args[1]])) >= 4
    /\ Cardinality(Box(ents[q.result[1]])) = 9
    /\ \A c \in Box(ents[q.result[1]]) : Count(_grid[c], q.result[1]) = 2

\* The step is a lookup call or a next() on its generator.
LookupStep ==
    /\ q'.kind \in Lookups
    /\ \/ q.kind = "none"
       \/ q'.state # q.state
       \/ q'.result # q.result

\* C27: queries do not change the index and cells exist only when occupied.
\* A step that is a call of query, query_point or query_rect, or a next() on
\* the generator it returned, leaves the grid, the primary cells,
\* entity_count and cell_count as they were, and in every state cell_count
\* is the number of cells that hold at least one entity.
C27_QueriesReadOnly ==
    /\ [](cell_count = Cardinality({c \in DOMAIN _grid : _grid[c] # <<>>}))
    /\ [][LookupStep
            => /\ _grid' = _grid
               /\ _entity_cells' = _entity_cells
               /\ entity_count' = entity_count
               /\ cell_count' = cell_count]_vars

\* C27 witness: query(E) found an entity and E was not inserted, so that the
\* cells of E and part of their neighbours are unoccupied.
C27_Witness ==
    /\ Consumed("query")
    /\ q.result # <<>>
    /\ ~Inserted(q.args[1])
    /\ Box(ents[q.args[1]]) \cap DOMAIN _grid = {}
    /\ cell_count >= 1

\* C27 second case: a box lookup over occupied and unoccupied cells.
C27_Rect ==
    /\ Consumed("query_rect")
    /\ q.result # <<>>
    /\ Covered(q.args[1], q.args[2], q.args[3], q.args[4]) \ DOMAIN _grid # {}

\* C28 (as claimed): the split asteroid is gone when split() returns.  After
\* split() with a pool configured, the instance split() was called on is
\* dead, in no group and not one of the returned offspring, and the two
\* offspring are distinct instances.
C28_ParentGone ==
    (elast.op = "split" /\ pooled) =>
        /\ ~objs[elast.self].alive
        /\ Detached(elast.self)
        /\ elast.self \notin Range(elast.ret)
        /\ Len(elast.ret) = 2 => elast.ret[1] # elast.ret[2]

\* C28 (amended): after split() on a live asteroid (one that was not
\* released before the call) with a pool configured, the two offspring are
\* distinct instances and the second is never the instance split() was
\* called on.  That instance is either the first offspring, handed back by
\* the pool and reset (alive, registered, with the offspring radius), or it
\* is dead and in no group.
C28_ParentGoneOrRecycled ==
    (elast.op = "split" /\ pooled /\ elast.pre.alive) =>
        /\ Len(elast.ret) = 2 =>
              /\ elast.ret[1] # elast.ret[2]
              /\ elast.ret[2] # elast.self
        /\ IF Len(elast.ret) = 2 /\ elast.ret[1] = elast.self
           THEN /\ objs[elast.self].alive
                /\ Registered(elast.self)
                /\ objs[elast.self].radius
                      = elast.pre.radius - ASTEROID_MIN_RADIUS
           ELSE /\ ~objs[elast.self].alive
                /\ Detached(elast.self)

\* C28 witness: split() of a live asteroid returned the asteroid's own
\* instance as the first of two offspring.
C28_Witness ==
    /\ elast.op = "split"
    /\ pooled
    /\ elast.pre.alive
    /\ Len(elast.ret) = 2
    /\ elast.ret[1] = elast.self
    /\ objs[elast.self].alive
    /\ elast.self \in Range(groups["asteroids"])

\* C28 second case: the pool had no room for the split asteroid, and both
\* offspring are other instances.
C28_NotRecycled ==
    /\ elast.op = "split"
    /\ pooled
    /\ elast.pre.alive
    /\ Len(elast.ret) = 2
    /\ elast.self \notin Range(elast.ret)
    /\ ~objs[elast.self].alive

\* C28, outside the amended statement: split() was called on an instance
\* that had been released and lay in the pool below another one; the pool
\* handed it out as the second offspring.
C28_ReleasedSplit ==
    /\ elast.op = "split"
    /\ pooled
    /\ ~elast.pre.alive
    /\ Len(elast.ret) = 2
    /\ elast.ret[2] = elast.self
    /\ objs[elast.self].alive
    /\ Registered(elast.self)

(***************************************************************************)
(* Properties of the scan.                                                 *)
(***************************************************************************)

\* The frames a reported scan took.
ScanTime(type) == IF type = "full" THEN SCAN_TIME_FULL ELSE SCAN_TIME_QUICK

\* C29: a scan never carries over to a recycled instance.  When Player.update
\* has advanced the scan, the timer holds no more than the frames for which
\* the asteroid that now lives in the target instance was scanned without a
\* break (nothing of an asteroid that lived there before), and a quick or
\* full scan is reported for an asteroid only when that asteroid itself was
\* scanned for SCAN_TIME_QUICK or SCAN_TIME_FULL without a break.
C29_ScanNotCarriedOver ==
    /\ (sphase = "field" /\ scan_target # NoObj) => scan_timer <= watch
    /\ last_scan_result # NoScanResult
          => watch >= ScanTime(last_scan_result.type)

(***************************************************************************)
(* Properties of the instances at rest.                                    *)
(***************************************************************************)
\* C30: pooled instances at rest are detached. In every state reached by
\* building the pool and then calling acquire, release, update and split on
\* the entities, every instance in the pool's available collection is a
\* member of no tracking collection (asteroids, shots, updatable, drawable),
\* and every instance in a tracking collection is alive.
C30_AtRestDetached ==
    /\ \A obj \in Range(_pool) : Detached(obj)
    /\ \A obj \in Members(groups) : objs[obj].alive

\* C30 witness: a released entity that was live and registered lies in the
\* available collection next to another instance, while a live entity is
\* registered in the tracking collections.
C30_Witness ==
    /\ pooled
    /\ elast.op = "release"
    /\ elast.pre.alive
    /\ elast.self \in Range(_pool)
    /\ Len(_pool) >= 2
    /\ Members(groups) # {}

\* C30, recycled: acquire() returned an instance that had been released; it
\* is registered again.
C30_Recycled ==
    /\ pooled
    /\ elast.op = "acquire"
    /\ elast.pre # NoEnt
    /\ ~elast.pre.alive
    /\ elast.ret[1] \in Members(groups)

(***************************************************************************)
(* Properties of the index at query time.                                  *)
(***************************************************************************)
\* The pooled instances at rest in either pool.
AtRest == Range(pools["Asteroid"].pool) \cup Range(pools["Shot"].pool)

\* The entity is alive and checked out of the pool of its class.
CheckedOut(obj) ==
    /\ objs[obj] # NoEnt
    /\ objs[obj].alive
    /\ obj \in pools[objs[obj].cls].active
    /\ obj \notin AtRest

\* C31: no dead entity is queried.  In every iteration of the game loop,
\* while the queries over the shots and the player are issued, every pooled
\* entity stored in the index is alive and checked out of its pool: no
\* instance that sits in a pool's available collection is in the index, a
\* shot whose lifetime expired in the update of the same iteration included.
C31_NoDeadQueried ==
    pc \in QueryPhases => \A obj \in Range(indexed) \cap Ids : CheckedOut(obj)

\* C31 witness: the first query of an iteration is about to be issued for a
\* live shot, an asteroid is in the index, and a shot whose lifetime expired
\* in update() lies dead in the shot pool.
C31_Witness ==
    /\ pc = "query_shots"
    /\ nq = 0
    /\ it # <<>>
    /\ Near(Head(it)) # {}
    /\ \E s \in Range(pools["Shot"].pool) :
            /\ ~objs[s].alive
            /\ objs[s].lifetime >= MaxLifetime
            /\ s \notin Range(indexed)

(***************************************************************************)
(* Properties of the life of a shot.                                       *)
(***************************************************************************)
\* The shot is registered and alive.
InFlight(obj) == obj \in Range(groups["shots"]) /\ objs[obj].alive

\* The shot is dead and in no group, or no longer exists.
Returned(obj) ==
    /\ Detached(obj)
    /\ objs[obj] = NoEnt \/ ~objs[obj].alive

\* A shot whose lifetime has reached max_lifetime is dead, detached and not
\* counted active.
AgedOut ==
    \A obj \in Ids :
        (objs[obj] # NoEnt /\ objs[obj].lifetime >= MaxLifetime) =>
            /\ ~objs[obj].alive
            /\ Detached(obj)
            /\ obj \notin _active

\* The shot obj expires in this step.
Expires(obj) ==
    /\ InFlight(obj)
    /\ objs'[obj] # NoEnt
    /\ ~objs'[obj].alive
    /\ objs'[obj].lifetime >= MaxLifetime

\* C32: every shot is eventually returned.  A shot whose accumulated lifetime
\* has reached max_lifetime is released: dead, detached, not active, and back
\* in the pool unless the pool is full or absent.  Under repeated frames with
\* dt > 0 every shot in flight is eventually released.  update(dt) on a
\* released shot changes neither the shot, nor the groups, nor the pool.
C32_EventuallyReturned ==
    /\ []AgedOut
    /\ [][\A obj \in Ids : Expires(obj) =>
            (~pooled \/ obj \in Range(_pool') \/ Len(_pool') = _max_size)]_vars
    /\ \A obj \in Ids : InFlight(obj) ~> Returned(obj)
    /\ [][(elast'.op = "update" /\ elast'.pre # NoEnt /\ ~elast'.pre.alive)
            => (objs'[elast'.self] = elast'.pre /\ groups' = groups
                   /\ _pool' = _pool /\ _active' = _active)]_vars

\* C32 witness: a frame has just released a pooled shot whose lifetime
\* reached max_lifetime, the pool took it back, and another shot is still in
\* flight.
C32_Witness ==
    /\ pooled
    /\ elast.op = "frame"
    /\ \E obj \in Range(_pool) :
          /\ obj \in Range(elast.ret)
          /\ ~objs[obj].alive
          /\ objs[obj].lifetime >= MaxLifetime
    /\ \E other \in Ids : InFlight(other)

\* C32, second part: update(dt) was called on a released shot.
C32_UpdateReleased ==
    /\ elast.op = "update"
    /\ elast.pre # NoEnt
    /\ ~elast.pre.alive

(***************************************************************************)
(* Properties of the session.                                              *)
(***************************************************************************)
\* The number of recorded actions of the session that are equal to a.
Recorded(a) ==
    Cardinality({i \in 1..Len(session.actions) : session.actions[i] = a})

\* C33: score matches action counts.  In every state of the game loop the
\* score of the session is DESTROY_POINTS * destroys + SCAN_POINTS_QUICK *
\* scans_quick + SCAN_POINTS_FULL * scans_full, each counter is the number
\* of recorded actions of its kind, and the packet of a finished game
\* passes validate_action_counts.
C33_ScoreMatchesCounts ==
    /\ session.score = DESTROY_POINTS * session.destroys
                         + SCAN_POINTS_QUICK * session.scans_quick
                         + SCAN_POINTS_FULL * session.scans_full
    /\ session.destroys = Recorded(<<"destroy">>)
    /\ session.scans_quick = Recorded(<<"scan", "quick">>)
    /\ session.scans_full = Recorded(<<"scan", "full">>)
    /\ packet # NoPacket => validate_action_counts(packet)

\* C33 witness: the game ended after a destroy, a quick scan and a full
\* scan were scored, and the packet carries their points.
C33_Witness ==
    /\ pc = "done"
    /\ packet # NoPacket
    /\ packet.destroys >= 1
    /\ packet.scans_quick >= 1
    /\ packet.scans_full >= 1
    /\ packet.score >= DESTROY_POINTS + SCAN_POINTS_QUICK + SCAN_POINTS_FULL
====
